---- MODULE Spec2Model ----
(***************************************************************************)
(* Idle Cave Miner bot: the scheduler loop, the periodic tasks, the        *)
(* control surface (toggles) and the counters, modelled from the modular   *)
(* implementation (bot.rs, stats.rs, config.rs), the single-file           *)
(* implementation (main.rs) and the generic scheduler (scheduler.rs).      *)
(*                                                                         *)
(* Time is the monotonic clock in whole seconds.  The scheduler, the key   *)
(* poller and the clock are separate contexts; every access to an atomic   *)
(* or to a lock-protected field is one step, so the steps of a toggle call *)
(* interleave with the steps of a scheduler tick.                          *)
(***************************************************************************)
EXTENDS Integers, Sequences, FiniteSets, TLC

\* ---------------------------------------------------------------- bounds
MaxAdvances == 2
MaxClicks == 2

\* ------------------------------------------------------- config.rs Timings
UPGRADE_INTERVAL == 30
SOULS_INTERVAL == 600
PRESTIGE_INTERVAL == 600

\* types.rs: enum TaskType { Upgrades, Souls, Prestige }
TaskType == {"Upgrades", "Souls", "Prestige"}

\* position of a variant in the enum's declaration
DeclarationRank(t) ==
    CASE t = "Upgrades" -> 1
      [] t = "Souls" -> 2
      [] t = "Prestige" -> 3

\* a scheduler that would evaluate Souls before Upgrades
TaskOrder_souls_first == <<"Souls", "Upgrades", "Prestige">>

\* the order of the three `if`s of check_and_run_tasks / check_scheduled_tasks
TaskOrder == <<"Upgrades", "Souls", "Prestige">>
None == "None"

Idx(t) == CHOOSE i \in 1..Len(TaskOrder) : TaskOrder[i] = t

Interval(t) ==
    CASE t = "Upgrades" -> UPGRADE_INTERVAL
      [] t = "Souls" -> SOULS_INTERVAL
      [] t = "Prestige" -> PRESTIGE_INTERVAL

\* the clock advances by one of these amounts between any two steps
TimeSteps == {UPGRADE_INTERVAL, SOULS_INTERVAL}

\* ------------------------------------------------------- action sequences
click_at(p) == [op |-> "click_at", pos |-> p, amount |-> 0]
scroll_at(p, n) == [op |-> "scroll_at", pos |-> p, amount |-> n]

Abs(n) == IF n < 0 THEN -n ELSE n

\* input calls issued by one call: click_at = move + click,
\* scroll_at = move + |amount| scrolls
InputCalls(c) == IF c.op = "click_at" THEN 2 ELSE 1 + Abs(c.amount)

perform_upgrades ==
    << click_at("UPGRADE_ICON"), click_at("UPGRADES_TAB") >>
    \o [i \in 1..5 |-> click_at(<<"UpgradePositions.BEFORE_SCROLL", i>>)]
    \o << scroll_at("SAFE_SCROLL_AREA", -8) >>
    \o [i \in 1..5 |-> click_at(<<"UpgradePositions.AFTER_SCROLL", i>>)]
    \o << scroll_at("SAFE_SCROLL_AREA", 8) >>

perform_souls_upgrade ==
    << click_at("UPGRADE_ICON"), click_at("SOULS_TAB") >>
    \o [i \in 1..6 |-> click_at(<<"SoulsPositions.BEFORE_SCROLL", i>>)]
    \o << scroll_at("SAFE_SCROLL_AREA", -2),
          click_at("SoulsPositions.AFTER_SCROLL"),
          scroll_at("SAFE_SCROLL_AREA", 2) >>

perform_prestige ==
    << click_at("PRESTIGE_BUTTON"), click_at("PRESTIGE_CLAIM"),
       click_at("PRESTIGE_CONFIRM") >>

Sequence(t) ==
    CASE t = "Upgrades" -> perform_upgrades
      [] t = "Souls" -> perform_souls_upgrade
      [] t = "Prestige" -> perform_prestige

RECURSIVE TotalInputCalls(_)
TotalInputCalls(s) ==
    IF s = <<>> THEN 0 ELSE InputCalls(Head(s)) + TotalInputCalls(Tail(s))

VARIABLES
    active,         \* BotState.active
    enabled,        \* BotState.{upgrades,souls,prestige}_enabled
    last_run,       \* TaskManager.last_{upgrade,souls,prestige}
    clicks,         \* Stats.clicks
    session_start,  \* Stats.session_start
    now,            \* the monotonic clock (Instant::now())
    advances,       \* how often the clock has advanced
    impl,           \* "bot" (bot.rs) or "main" (main.rs)
    pc,             \* scheduler position in run_loop
    cur,            \* the task check_and_run_tasks is at
    step,           \* calls of the current sequence already made
    tnow,           \* main.rs: `now` captured by check_scheduled_tasks
    tickActive,     \* what is_active() returned in the current tick
    tickInputs,     \* input calls issued in the current tick
    tickIncr,       \* increments of the click counter in the current tick
    ranThisTick,    \* tasks whose sequence started in the current tick
    foundDue,       \* tasks found enabled and due in the current tick
    tpc,            \* position of the key poller inside a toggle call
    titem,          \* what the toggle call in progress toggles
    was_on,         \* value fetch_xor returned to the toggle in progress
    firstTick,      \* "none" | "pending" | "running" | "done"
    tasks,          \* scheduler.rs Scheduler.tasks
    ti,             \* scheduler.rs: index Scheduler::tick's loop is at, 0 = idle
    seval,          \* scheduler.rs: the last should_run() evaluation
    entries,        \* logger.rs Logger.entries
    logs,           \* main.rs Bot.logs
    appended,       \* how many entries each log has been handed so far
    input_err,      \* whether an input call of the latest active tick returned Err
    keys,           \* the keys held down right now (DeviceState)
    presses,        \* key presses and terminal key events so far
    key_states,     \* input.rs KeyStates / main.rs last_f1..last_f4
    polled,         \* `keys` of the poll in progress (device.get_keys())
    prev_polled,    \* `keys` of the poll before it
    hk,             \* the handle_key the poller is at, 0 = between polls
    call,           \* the toggle call each context is in
    ui_pc,          \* position of the redraw loop
    clicker,        \* clicker.rs Clicker.active, Clicker.last_toggle
    sc,             \* the scroll_at call in progress
    issued,         \* the input calls that scroll_at call has made so far
    held,           \* per RwLock: the guards alive, as <<context, mode>>
    lpc,            \* per context: where it is relative to guards and awaits
    snap,           \* the Vec the latest Logger::get_entries returned
    events,         \* main.rs: key events the terminal has queued for run_ui
    target,         \* scroll position of the window the input calls reach
    before,         \* `target` when the sequence in progress was entered
    seqs,           \* sequences run from their first call to their last
    scroll_err      \* whether a scroll call of that sequence returned Err

schedVars == <<pc, cur, step, tnow, tickActive, tickInputs, tickIncr,
               ranThisTick, foundDue>>
toggleVars == <<tpc, titem, was_on>>
genVars == <<tasks, ti, seval>>
logVars == <<entries, logs, appended>>
\* what the scheduler loop and the toggles of bot.rs / main.rs leave alone
seqVars == <<input_err>>
inputVars == <<keys, presses, key_states, polled, prev_polled, hk, call, ui_pc,
               clicker>>
scrollVars == <<sc, issued>>
lockVars == <<held, lpc, snap>>
termVars == <<events>>
sweepVars == <<target, before, seqs, scroll_err>>
otherVars == <<genVars, logVars, seqVars, inputVars, scrollVars, lockVars,
               termVars, sweepVars>>
botVars == <<active, enabled, last_run, clicks, session_start, impl,
             schedVars, toggleVars, firstTick>>
vars == <<active, enabled, last_run, clicks, session_start, now, advances, impl,
          pc, cur, step, tnow, tickActive, tickInputs, tickIncr,
          ranThisTick, foundDue, tpc, titem, was_on, firstTick,
          tasks, ti, seval, entries, logs, appended, input_err,
          keys, presses, key_states, polled, prev_polled, hk, call, ui_pc,
          clicker, sc, issued, held, lpc, snap, events, target, before, seqs,
          scroll_err>>

\* a constructor that seeds every last_run more than one interval in the past
TaskManager_new_seeded_past(at) == [t \in TaskType |-> (at - Interval(t)) - 1]

\* TaskManager::new: let now = Instant::now(); every last_* = now
TaskManager_new(at) == [t \in TaskType |-> at]

\* BotState::new, TaskManager::new, Stats::new at the startup instant 0
InitState ==
    /\ active = FALSE
    /\ enabled = [t \in TaskType |-> TRUE]
    /\ last_run = TaskManager_new(0)
    /\ clicks = 0
    /\ session_start = 0
    /\ now = 0
    /\ advances = 0
    /\ pc = "new"
    /\ cur = None
    /\ step = 0
    /\ tnow = 0
    /\ tickActive = FALSE
    /\ tickInputs = 0
    /\ tickIncr = 0
    /\ ranThisTick = <<>>
    /\ foundDue = {}
    /\ tpc = "idle"
    /\ titem = None
    /\ was_on = FALSE
    /\ firstTick = "none"
    /\ tasks = <<>>
    /\ ti = 0
    /\ seval = [task |-> 0, elapsed |-> 0, interval |-> 0, due |-> FALSE]
    /\ entries = <<>>
    /\ logs = <<>>
    /\ appended = [Logger |-> 0, Bot |-> 0]
    /\ input_err = FALSE
    /\ keys = {}
    /\ presses = 0
    /\ key_states = [k \in {"F1", "F2", "F3", "F4"} |-> FALSE]
    /\ polled = {}
    /\ prev_polled = {}
    /\ hk = 0
    /\ call = [c \in {"poller", "ui"} |-> [item |-> "None", was |-> FALSE]]
    /\ ui_pc = "draw"
    /\ clicker = [active |-> FALSE, last_toggle |-> FALSE]
    /\ sc = [pc |-> "idle", pos |-> "None", amount |-> 0, i |-> 0]
    /\ issued = <<>>
    /\ held = [l \in TaskType \cup {"entries", "session_start"} |-> {}]
    /\ lpc = [c \in {"scheduler", "poller", "ui"} |->
                 [at |-> "out", lock |-> "None", mode |-> "None"]]
    /\ snap = <<>>
    /\ events = <<>>
    /\ target = 0
    /\ before = 0
    /\ seqs = 0
    /\ scroll_err = FALSE

Init == InitState /\ impl = "bot"

\* ------------------------------------------------------------ TaskManager
should_run_task(t) == (now - last_run[t]) > Interval(t)

update_last_run(t) == last_run' = [last_run EXCEPT ![t] = now]

\* a subtraction that does not saturate
subtract(a, b) == a - b

\* Duration::saturating_sub
saturating_sub(a, b) == IF b > a THEN 0 ELSE a - b

\* TaskManager::get_time_until_next: interval.saturating_sub(last.elapsed())
get_time_until_next(t) == saturating_sub(Interval(t), now - last_run[t])

\* a rate that treats an elapsed time of 0 s as 1 s
get_cpm_floors_elapsed_at_one ==
    LET elapsed == now - session_start
    IN  (clicks * 60) \div (IF elapsed = 0 THEN 1 ELSE elapsed)

\* Stats::get_cpm: elapsed = session_start.elapsed().as_secs();
\* if elapsed == 0 { 0 } else { clicks * 60 / elapsed }
get_cpm ==
    LET elapsed == now - session_start
    IN  IF elapsed = 0 THEN 0 ELSE (clicks * 60) \div elapsed

\* ------------------------------------------------------------------ clock
Advance ==
    /\ advances < MaxAdvances
    /\ advances' = advances + 1
    /\ \E d \in TimeSteps : now' = now + d
    /\ UNCHANGED <<active, enabled, last_run, clicks, session_start, impl,
                   schedVars, toggleVars, firstTick, otherVars>>

\* ------------------------------------------------------------ scheduler
\* tickActive, tickInputs, tickIncr, ranThisTick, foundDue and firstTick
\* describe the tick in progress; they are cleared when the tick ends.
EndTick ==
    /\ pc' = "tick"
    /\ cur' = None
    /\ tickActive' = FALSE
    /\ tickInputs' = 0
    /\ tickIncr' = 0
    /\ ranThisTick' = <<>>
    /\ foundDue' = {}
    /\ tnow' = 0
    /\ firstTick' = IF firstTick = "pending" THEN "pending" ELSE "none"

\* control falls through to the next `if` of check_and_run_tasks, or returns
NextTask(t) ==
    IF Idx(t) < Len(TaskOrder)
    THEN /\ pc' = "check"
         /\ cur' = TaskOrder[Idx(t) + 1]
         /\ UNCHANGED <<tickActive, tickInputs, tickIncr, ranThisTick,
                        foundDue, tnow, firstTick>>
    ELSE EndTick

\* run_loop: Enigo::new(..)? either yields the capability or returns Err
run_loop_new ==
    /\ impl = "bot"
    /\ pc = "new"
    /\ \/ pc' = "log_started"
       \/ pc' = "error"
    /\ UNCHANGED <<active, enabled, last_run, clicks, session_start, now,
                   advances, impl, cur, step, tnow, tickActive, tickInputs,
                   tickIncr, ranThisTick, foundDue, toggleVars, firstTick>>
    /\ UNCHANGED otherVars

\* run_loop: logger.log(Info, "Bot loop started")
run_loop_started ==
    /\ pc = "log_started"
    /\ pc' = "tick"
    /\ UNCHANGED <<active, enabled, last_run, clicks, session_start, now,
                   advances, impl, cur, step, tnow, tickActive, tickInputs,
                   tickIncr, ranThisTick, foundDue, toggleVars, firstTick>>
    /\ UNCHANGED otherVars

\* a tick that mines whatever is_active() returned
run_loop_tick_always_mines ==
    /\ pc = "tick"
    /\ clicks < MaxClicks
    /\ tickActive' = active
    /\ pc' = "mine"
    /\ firstTick' = IF active /\ firstTick = "pending" THEN "running"
                    ELSE firstTick
    /\ UNCHANGED <<active, enabled, last_run, clicks, session_start, now,
                   advances, impl, cur, step, tnow, tickInputs, tickIncr,
                   ranThisTick, foundDue, toggleVars>>
    /\ UNCHANGED otherVars

\* run_loop: mining_interval.tick().await; if !self.is_active() { .. }
run_loop_tick ==
    /\ pc = "tick"
    /\ active => clicks < MaxClicks
    /\ tickActive' = active
    /\ pc' = IF active THEN "mine" ELSE "idle"
    /\ firstTick' = IF active /\ firstTick = "pending" THEN "running"
                    ELSE firstTick
    /\ UNCHANGED <<active, enabled, last_run, clicks, session_start, now,
                   advances, impl, cur, step, tnow, tickInputs, tickIncr,
                   ranThisTick, foundDue, toggleVars>>
    /\ UNCHANGED otherVars

\* an inactive branch without its `continue`: falls through after the sleep
run_loop_idle_falls_through ==
    /\ pc = "idle"
    /\ clicks < MaxClicks
    /\ pc' = "mine"
    /\ UNCHANGED <<active, enabled, last_run, clicks, session_start, now,
                   advances, impl, cur, step, tnow, tickActive, tickInputs,
                   tickIncr, ranThisTick, foundDue, toggleVars, firstTick>>
    /\ UNCHANGED otherVars

\* run_loop: tokio::time::sleep(100ms) of the inactive branch, then continue
run_loop_idle ==
    /\ pc = "idle"
    /\ EndTick
    /\ UNCHANGED <<active, enabled, last_run, clicks, session_start, now,
                   advances, impl, step, toggleVars>>
    /\ UNCHANGED otherVars

\* move_mouse(MINING), button(Left, Click), stats.increment_clicks()
perform_mining_click ==
    /\ pc = "mine"
    /\ tickInputs' = tickInputs + 2
    /\ clicks' = clicks + 1
    /\ tickIncr' = tickIncr + 1
    /\ IF impl = "bot"
       THEN pc' = "check" /\ cur' = TaskOrder[1]
       ELSE pc' = "capture" /\ cur' = None
    /\ firstTick' = IF firstTick = "running" THEN "done" ELSE firstTick
    /\ UNCHANGED <<active, enabled, last_run, session_start, now, advances,
                   impl, step, tnow, tickActive, ranThisTick, foundDue,
                   toggleVars>>
    /\ UNCHANGED otherVars

\* a check that runs a due task only when no other task ran in this tick
check_and_run_tasks_one_per_tick(t) ==
    /\ impl = "bot"
    /\ pc = "check"
    /\ cur = t
    /\ IF enabled[t] /\ should_run_task(t) /\ ranThisTick = <<>>
       THEN /\ pc' = "perform"
            /\ cur' = t
            /\ foundDue' = foundDue \cup {t}
            /\ UNCHANGED <<tickActive, tickInputs, tickIncr, ranThisTick,
                           tnow, firstTick>>
       ELSE IF Idx(t) < Len(TaskOrder)
            THEN /\ pc' = "check"
                 /\ cur' = TaskOrder[Idx(t) + 1]
                 /\ foundDue' = IF enabled[t] /\ should_run_task(t)
                                THEN foundDue \cup {t} ELSE foundDue
                 /\ UNCHANGED <<tickActive, tickInputs, tickIncr,
                                ranThisTick, tnow, firstTick>>
            ELSE EndTick
    /\ UNCHANGED <<active, enabled, last_run, clicks, session_start, now,
                   advances, impl, step, toggleVars>>
    /\ UNCHANGED otherVars

\* a check that tests only due-ness, not the enabled flag
check_and_run_tasks_ignores_flag(t) ==
    /\ impl = "bot"
    /\ pc = "check"
    /\ cur = t
    /\ IF should_run_task(t)
       THEN /\ pc' = "perform"
            /\ cur' = t
            /\ foundDue' = foundDue \cup {t}
            /\ UNCHANGED <<tickActive, tickInputs, tickIncr, ranThisTick,
                           tnow, firstTick>>
       ELSE NextTask(t)
    /\ UNCHANGED <<active, enabled, last_run, clicks, session_start, now,
                   advances, impl, step, toggleVars>>
    /\ UNCHANGED otherVars

\* one `if enabled.load() && should_run_task(t) { .. }` of check_and_run_tasks
check_and_run_tasks(t) ==
    /\ impl = "bot"
    /\ pc = "check"
    /\ cur = t
    /\ IF enabled[t] /\ should_run_task(t)
       THEN /\ pc' = "perform"
            /\ cur' = t
            /\ foundDue' = foundDue \cup {t}
            /\ UNCHANGED <<tickActive, tickInputs, tickIncr, ranThisTick,
                           tnow, firstTick>>
       ELSE NextTask(t)
    /\ UNCHANGED <<active, enabled, last_run, clicks, session_start, now,
                   advances, impl, step, toggleVars>>
    /\ UNCHANGED otherVars

\* perform_*: logger.log(Task, "Running ...") -- the sequence starts
perform_start ==
    /\ pc = "perform"
    /\ pc' = "run"
    /\ step' = 0
    /\ ranThisTick' = Append(ranThisTick, cur)
    /\ UNCHANGED <<active, enabled, last_run, clicks, session_start, now,
                   advances, impl, cur, tnow, tickActive, tickInputs, tickIncr,
                   foundDue, toggleVars, firstTick>>
    /\ UNCHANGED otherVars

\* a sequence whose click_at calls count as clicks
perform_complete_counts_clicks ==
    /\ pc = "run"
    /\ step' = Len(Sequence(cur))
    /\ tickInputs' = tickInputs + TotalInputCalls(Sequence(cur))
    /\ clicks' = clicks + Cardinality({i \in DOMAIN Sequence(cur) :
                                          Sequence(cur)[i].op = "click_at"})
    /\ pc' = "update"
    /\ UNCHANGED <<active, enabled, last_run, session_start, now,
                   advances, impl, cur, tnow, tickActive, tickIncr,
                   ranThisTick, foundDue, toggleVars, firstTick>>
    /\ UNCHANGED otherVars

\* perform_*: every click_at / scroll_at call of the sequence in order, then
\* logger.log(Success, "... complete")
perform_complete ==
    /\ pc = "run"
    /\ step' = Len(Sequence(cur))
    /\ tickInputs' = tickInputs + TotalInputCalls(Sequence(cur))
    /\ pc' = "update"
    /\ UNCHANGED <<active, enabled, last_run, clicks, session_start, now,
                   advances, impl, cur, tnow, tickActive, tickIncr,
                   ranThisTick, foundDue, toggleVars, firstTick>>
    /\ UNCHANGED otherVars

\* an update that restarts the timer of every task, not only of the one run
run_update_last_run_marks_all ==
    /\ impl = "bot"
    /\ pc = "update"
    /\ last_run' = [t \in TaskType |-> now]
    /\ NextTask(cur)
    /\ step' = 0
    /\ UNCHANGED <<active, enabled, clicks, session_start, now, advances,
                   impl, toggleVars>>
    /\ UNCHANGED otherVars

\* check_and_run_tasks: self.task_manager.update_last_run(t)
run_update_last_run ==
    /\ impl = "bot"
    /\ pc = "update"
    /\ update_last_run(cur)
    /\ NextTask(cur)
    /\ step' = 0
    /\ UNCHANGED <<active, enabled, clicks, session_start, now, advances,
                   impl, toggleVars>>
    /\ UNCHANGED otherVars

run_loop ==
    \/ run_loop_new
    \/ run_loop_started
    \/ run_loop_tick
    \/ run_loop_idle
    \/ perform_mining_click
    \/ \E t \in TaskType : check_and_run_tasks(t)
    \/ perform_start
    \/ perform_complete
    \/ run_update_last_run

\* --------------------------------------------------------- control surface
\* Stats::reset: clicks.store(0), then *session_start.write() = Instant::now()
Stats_reset(after) ==
    \/ /\ tpc = "reset_clicks"
       /\ clicks' = 0
       /\ tpc' = "reset_start"
       /\ UNCHANGED <<session_start, titem>>
    \/ /\ tpc = "reset_start"
       /\ session_start' = now
       /\ tpc' = after
       /\ titem' = IF after = "idle" THEN None ELSE titem
       /\ UNCHANGED clicks

\* a toggle that restarts every task timer when it activates
toggle_restarts_timers ==
    /\ impl = "bot"
    /\ \/ /\ tpc = "idle"
          /\ was_on' = active
          /\ active' = ~active
          /\ titem' = "master"
          /\ tpc' = IF ~active THEN "reset_clicks" ELSE "log"
          /\ firstTick' = IF ~active THEN "pending" ELSE "none"
          /\ last_run' = IF ~active THEN [t \in TaskType |-> now]
                         ELSE last_run
          /\ UNCHANGED <<clicks, session_start>>
       \/ /\ titem = "master"
          /\ Stats_reset("log")
          /\ UNCHANGED <<active, was_on, firstTick, last_run>>
       \/ /\ titem = "master"
          /\ tpc = "log"
          /\ tpc' = "idle"
          /\ titem' = None
          /\ UNCHANGED <<active, was_on, firstTick, clicks, session_start,
                         last_run>>
    /\ UNCHANGED <<enabled, now, advances, impl, schedVars>>
    /\ UNCHANGED otherVars

\* a toggle that resets the counters when it pauses instead
toggle_resets_on_pause ==
    /\ impl = "bot"
    /\ \/ /\ tpc = "idle"
          /\ was_on' = active
          /\ active' = ~active
          /\ titem' = "master"
          /\ tpc' = IF active THEN "reset_clicks" ELSE "log"
          /\ firstTick' = IF ~active THEN "pending" ELSE "none"
          /\ UNCHANGED <<clicks, session_start>>
       \/ /\ titem = "master"
          /\ Stats_reset("log")
          /\ UNCHANGED <<active, was_on, firstTick>>
       \/ /\ titem = "master"
          /\ tpc = "log"
          /\ tpc' = "idle"
          /\ titem' = None
          /\ UNCHANGED <<active, was_on, firstTick, clicks, session_start>>
    /\ UNCHANGED <<enabled, last_run, now, advances, impl, schedVars>>
    /\ UNCHANGED otherVars

\* Bot::toggle (bot.rs): fetch_xor, reset when it was off, then the log entry
toggle ==
    /\ impl = "bot"
    /\ \/ /\ tpc = "idle"
          /\ was_on' = active
          /\ active' = ~active
          /\ titem' = "master"
          /\ tpc' = IF ~active THEN "reset_clicks" ELSE "log"
          /\ firstTick' = IF ~active THEN "pending" ELSE "none"
          /\ UNCHANGED <<clicks, session_start>>
       \/ /\ titem = "master"
          /\ Stats_reset("log")
          /\ UNCHANGED <<active, was_on, firstTick>>
       \/ /\ titem = "master"
          /\ tpc = "log"
          /\ tpc' = "idle"
          /\ titem' = None
          /\ UNCHANGED <<active, was_on, firstTick, clicks, session_start>>
    /\ UNCHANGED <<enabled, last_run, now, advances, impl, schedVars>>
    /\ UNCHANGED otherVars

\* a toggle_task that restarts the task's timer when it enables the task
toggle_task_restarts_timer(t) ==
    /\ \/ /\ tpc = "idle"
          /\ was_on' = enabled[t]
          /\ enabled' = [enabled EXCEPT ![t] = ~enabled[t]]
          /\ last_run' = IF enabled[t] THEN last_run
                         ELSE [last_run EXCEPT ![t] = now]
          /\ titem' = t
          /\ tpc' = "log"
       \/ /\ titem = t
          /\ tpc = "log"
          /\ tpc' = "idle"
          /\ titem' = None
          /\ UNCHANGED <<enabled, was_on, last_run>>
    /\ UNCHANGED <<active, clicks, session_start, now, advances, impl,
                   schedVars, firstTick>>
    /\ UNCHANGED otherVars

\* Bot::toggle_task: fetch_xor on the task's flag, then the log entry
toggle_task(t) ==
    /\ \/ /\ tpc = "idle"
          /\ was_on' = enabled[t]
          /\ enabled' = [enabled EXCEPT ![t] = ~enabled[t]]
          /\ titem' = t
          /\ tpc' = "log"
       \/ /\ titem = t
          /\ tpc = "log"
          /\ tpc' = "idle"
          /\ titem' = None
          /\ UNCHANGED <<enabled, was_on>>
    /\ UNCHANGED <<active, last_run, clicks, session_start, now, advances, impl,
                   schedVars, firstTick>>
    /\ UNCHANGED otherVars

\* ------------------------------------------------- main.rs (single file)
\* check_scheduled_tasks: let now = Instant::now();
check_scheduled_tasks_now ==
    /\ impl = "main"
    /\ pc = "capture"
    /\ tnow' = now
    /\ pc' = "check"
    /\ cur' = TaskOrder[1]
    /\ UNCHANGED <<active, enabled, last_run, clicks, session_start, now,
                   advances, impl, step, tickActive, tickInputs, tickIncr,
                   ranThisTick, foundDue, toggleVars, firstTick>>
    /\ UNCHANGED otherVars

\* one `if self.is_*_enabled() && now.duration_since(last) > interval`
check_scheduled_tasks(t) ==
    /\ impl = "main"
    /\ pc = "check"
    /\ cur = t
    /\ IF enabled[t] /\ (tnow - last_run[t]) > Interval(t)
       THEN /\ pc' = "perform"
            /\ cur' = t
            /\ foundDue' = foundDue \cup {t}
            /\ UNCHANGED <<tickActive, tickInputs, tickIncr, ranThisTick,
                           tnow, firstTick>>
       ELSE NextTask(t)
    /\ UNCHANGED <<active, enabled, last_run, clicks, session_start, now,
                   advances, impl, step, toggleVars>>
    /\ UNCHANGED otherVars

\* a write that puts last_run back by the interval (the task is due again)
check_scheduled_tasks_write_rewinds ==
    /\ impl = "main"
    /\ pc = "update"
    /\ last_run' = [last_run EXCEPT ![cur] = last_run[cur] - Interval(cur)]
    /\ NextTask(cur)
    /\ step' = 0
    /\ UNCHANGED <<active, enabled, clicks, session_start, now, advances,
                   impl, toggleVars>>
    /\ UNCHANGED otherVars

\* check_scheduled_tasks: *self.last_*.write() = now  (the captured `now`)
check_scheduled_tasks_write ==
    /\ impl = "main"
    /\ pc = "update"
    /\ last_run' = [last_run EXCEPT ![cur] = tnow]
    /\ NextTask(cur)
    /\ step' = 0
    /\ UNCHANGED <<active, enabled, clicks, session_start, now, advances,
                   impl, toggleVars>>
    /\ UNCHANGED otherVars

\* run_bot_loop: Enigo::new() cannot fail here
run_bot_loop_new ==
    /\ impl = "main"
    /\ pc = "new"
    /\ pc' = "log_started"
    /\ UNCHANGED <<active, enabled, last_run, clicks, session_start, now,
                   advances, impl, cur, step, tnow, tickActive, tickInputs,
                   tickIncr, ranThisTick, foundDue, toggleVars, firstTick>>
    /\ UNCHANGED otherVars

run_bot_loop ==
    \/ run_bot_loop_new
    \/ run_loop_started
    \/ run_loop_tick
    \/ run_loop_idle
    \/ perform_mining_click
    \/ check_scheduled_tasks_now
    \/ \E t \in TaskType : check_scheduled_tasks(t)
    \/ perform_start
    \/ perform_complete
    \/ check_scheduled_tasks_write

\* Bot::toggle (main.rs): fetch_xor, the log entry, then reset when it was off
main_toggle ==
    /\ impl = "main"
    /\ \/ /\ tpc = "idle"
          /\ was_on' = active
          /\ active' = ~active
          /\ titem' = "master"
          /\ tpc' = "log"
          /\ firstTick' = IF ~active THEN "pending" ELSE "none"
          /\ UNCHANGED <<clicks, session_start>>
       \/ /\ titem = "master"
          /\ tpc = "log"
          /\ tpc' = IF ~was_on THEN "reset_clicks" ELSE "idle"
          /\ titem' = IF ~was_on THEN titem ELSE None
          /\ UNCHANGED <<active, was_on, firstTick, clicks, session_start>>
       \/ /\ titem = "master"
          /\ Stats_reset("idle")
          /\ UNCHANGED <<active, was_on, firstTick>>
    /\ UNCHANGED <<enabled, last_run, now, advances, impl, schedVars>>
    /\ UNCHANGED otherVars

InitMain == InitState /\ impl = "main"

NextMain ==
    \/ run_bot_loop
    \/ main_toggle
    \/ \E t \in TaskType : toggle_task(t)
    \/ Advance

SpecMain == InitMain /\ [][NextMain]_vars

\* ------------------------------------------- scheduler.rs (generic tasks)
MaxTasks == 2

\* TimedTask::new(interval_secs, action): last_run = now - interval
TimedTask_new(interval_secs) ==
    [interval |-> interval_secs, last_run |-> now - interval_secs, runs |-> 0]

\* TimedTask::should_run: self.last_run.elapsed() >= self.interval
TimedTask_should_run(task) == (now - task.last_run) >= task.interval

\* the action invoked, the store of last_run left out
TimedTask_run_keeps_last_run(task) ==
    [task EXCEPT !.runs = task.runs + 1]

\* TimedTask::run: (self.action)(); self.last_run = Instant::now()
TimedTask_run(task) ==
    [task EXCEPT !.runs = task.runs + 1, !.last_run = now]

\* Scheduler::add_task(TimedTask::new(..))
Scheduler_add_task ==
    /\ ti = 0
    /\ Len(tasks) < MaxTasks
    /\ \E interval_secs \in TimeSteps :
          tasks' = Append(tasks, TimedTask_new(interval_secs))
    /\ UNCHANGED <<ti, seval, botVars, now, advances, logVars, seqVars, inputVars,
                   scrollVars, lockVars, termVars, sweepVars>>

\* Scheduler::tick: for task in &mut self.tasks { if should_run { run } }
Scheduler_tick ==
    /\ \/ /\ ti = 0
          /\ tasks # <<>>
          /\ ti' = 1
          /\ UNCHANGED <<tasks, seval>>
       \/ /\ ti > 0
          /\ seval' = [task |-> ti,
                       elapsed |-> now - tasks[ti].last_run,
                       interval |-> tasks[ti].interval,
                       due |-> TimedTask_should_run(tasks[ti])]
          /\ tasks' = IF TimedTask_should_run(tasks[ti])
                      THEN [tasks EXCEPT ![ti] = TimedTask_run(tasks[ti])]
                      ELSE tasks
          /\ ti' = IF ti < Len(tasks) THEN ti + 1 ELSE 0
    /\ UNCHANGED <<botVars, now, advances, logVars, seqVars, inputVars,
                   scrollVars, lockVars, termVars, sweepVars>>

NextSched ==
    \/ Scheduler_add_task
    \/ Scheduler_tick
    \/ Advance

SpecSched == Init /\ [][NextSched]_vars

\* ------------------------------------------ logger.rs / main.rs (the log)
\* config.rs UIConfig::MAX_LOGS
MAX_LOGS == 50
\* appends handed to each log
MaxAppends == 52

LogEntry(level, message) == [level |-> level, message |-> message]

\* the front of the log dropped instead of the back
Logger_log_keeps_oldest(es, level, message) ==
    LET pushed == Append(es, LogEntry(level, message))
    IN  IF Len(pushed) > MAX_LOGS
        THEN SubSeq(pushed, 1, MAX_LOGS)
        ELSE pushed

\* Logger::log: entries.push(..); if entries.len() > MAX_LOGS
\* { excess = len.saturating_sub(MAX_LOGS); entries.drain(0..excess) }
Logger_log(es, level, message) ==
    LET pushed == Append(es, LogEntry(level, message))
        excess == IF Len(pushed) > MAX_LOGS THEN Len(pushed) - MAX_LOGS ELSE 0
    IN  IF Len(pushed) > MAX_LOGS
        THEN SubSeq(pushed, excess + 1, Len(pushed))
        ELSE pushed

\* Bot::log (main.rs): logs.push(..); if logs_len > 50
\* { logs.drain(0..logs_len - 50) }
Bot_log(ls, icon, message) ==
    LET pushed == Append(ls, LogEntry(icon, message))
        logs_len == Len(pushed)
    IN  IF logs_len > 50
        THEN SubSeq(pushed, (logs_len - 50) + 1, logs_len)
        ELSE pushed

\* Logger::get_entries: a copy of the vector, oldest entry first
get_entries == entries

\* some context calls logger.log(level, message); the message is the number
\* of the call, so that every entry is told apart from every other
Logger_log_call ==
    /\ appended.Logger < MaxAppends
    /\ appended' = [appended EXCEPT !.Logger = appended.Logger + 1]
    /\ entries' = Logger_log(entries, "Info", appended.Logger + 1)
    /\ UNCHANGED <<logs, botVars, now, advances, genVars, seqVars, inputVars,
                   scrollVars, lockVars, termVars, sweepVars>>

\* some context calls self.log(icon, message, color) of main.rs
Bot_log_call ==
    /\ appended.Bot < MaxAppends
    /\ appended' = [appended EXCEPT !.Bot = appended.Bot + 1]
    /\ logs' = Bot_log(logs, "icon", appended.Bot + 1)
    /\ UNCHANGED <<entries, botVars, now, advances, genVars, seqVars, inputVars,
                   scrollVars, lockVars, termVars, sweepVars>>

NextLog ==
    \/ Logger_log_call
    \/ Bot_log_call

SpecLog == Init /\ [][NextLog]_vars

\* ------------------------------- bot.rs, one step per click_at / scroll_at
\* what an input call (move_mouse, button, scroll) returns
InputResults == {"Ok", "Err"}

\* perform_mining_click: let _ = move_mouse(..); let _ = button(..);
\* stats.increment_clicks() -- with the two results it discards
perform_mining_click_calls ==
    /\ pc = "mine"
    /\ \E moved, clicked \in InputResults :
          input_err' = ("Err" \in {moved, clicked})
    /\ tickInputs' = tickInputs + 2
    /\ clicks' = clicks + 1
    /\ tickIncr' = tickIncr + 1
    /\ IF impl = "bot"
       THEN pc' = "check" /\ cur' = TaskOrder[1]
       ELSE pc' = "capture" /\ cur' = None
    /\ firstTick' = IF firstTick = "running" THEN "done" ELSE firstTick
    /\ UNCHANGED <<active, enabled, last_run, session_start, now, advances,
                   impl, step, tnow, tickActive, ranThisTick, foundDue,
                   toggleVars>>
    /\ UNCHANGED <<genVars, logVars, inputVars, scrollVars,
                   lockVars, termVars, sweepVars>>

\* a sequence that returns early when one of its input calls fails
perform_call_returns_on_err ==
    /\ pc = "run"
    /\ step < Len(Sequence(cur))
    /\ \E failed \in BOOLEAN :
          /\ input_err' = (input_err \/ failed)
          /\ IF failed
             THEN pc' = "tick" /\ step' = 0
             ELSE pc' = pc /\ step' = step + 1
    /\ tickInputs' = tickInputs + InputCalls(Sequence(cur)[step + 1])
    /\ UNCHANGED <<active, enabled, last_run, clicks, session_start, now,
                   advances, impl, cur, tnow, tickActive, tickIncr,
                   ranThisTick, foundDue, toggleVars, firstTick>>
    /\ UNCHANGED <<genVars, logVars, inputVars, scrollVars,
                   lockVars, termVars, sweepVars>>

\* a sequence that gives up when it finds the master flag or its own flag off
perform_call_stops_when_off ==
    /\ pc = "run"
    /\ step < Len(Sequence(cur))
    /\ IF active /\ enabled[cur]
       THEN /\ pc' = pc
            /\ step' = step + 1
            /\ tickInputs' = tickInputs + InputCalls(Sequence(cur)[step + 1])
       ELSE /\ pc' = "tick"
            /\ step' = 0
            /\ tickInputs' = tickInputs
    /\ \E failed \in BOOLEAN : input_err' = (input_err \/ failed)
    /\ UNCHANGED <<active, enabled, last_run, clicks, session_start, now,
                   advances, impl, cur, tnow, tickActive, tickIncr,
                   ranThisTick, foundDue, toggleVars, firstTick>>
    /\ UNCHANGED <<genVars, logVars, inputVars, scrollVars,
                   lockVars, termVars, sweepVars>>

\* a sequence between whose calls the primary action is also performed
perform_call_mines_between ==
    /\ pc = "run"
    /\ step < Len(Sequence(cur))
    /\ \E failed \in BOOLEAN : input_err' = (input_err \/ failed)
    /\ step' = step + 1
    /\ tickInputs' = tickInputs + InputCalls(Sequence(cur)[step + 1]) + 2
    /\ tickIncr' = tickIncr + 1
    /\ UNCHANGED <<active, enabled, last_run, clicks, session_start, now,
                   advances, impl, pc, cur, tnow, tickActive,
                   ranThisTick, foundDue, toggleVars, firstTick>>
    /\ UNCHANGED <<genVars, logVars, inputVars, scrollVars,
                   lockVars, termVars, sweepVars>>

\* perform_*: the next click_at / scroll_at call of the sequence; each of its
\* input calls is `let _ = enigo...`, so an Err changes nothing
perform_call ==
    /\ pc = "run"
    /\ step < Len(Sequence(cur))
    /\ \E failed \in BOOLEAN : input_err' = (input_err \/ failed)
    /\ step' = step + 1
    /\ tickInputs' = tickInputs + InputCalls(Sequence(cur)[step + 1])
    /\ UNCHANGED <<active, enabled, last_run, clicks, session_start, now,
                   advances, impl, pc, cur, tnow, tickActive, tickIncr,
                   ranThisTick, foundDue, toggleVars, firstTick>>
    /\ UNCHANGED <<genVars, logVars, inputVars, scrollVars,
                   lockVars, termVars, sweepVars>>

\* perform_*: logger.log(Success, "... complete") after the last call
perform_finish ==
    /\ pc = "run"
    /\ step = Len(Sequence(cur))
    /\ pc' = "update"
    /\ UNCHANGED <<active, enabled, last_run, clicks, session_start, now,
                   advances, impl, cur, step, tnow, tickActive, tickInputs,
                   tickIncr, ranThisTick, foundDue, toggleVars, firstTick>>
    /\ UNCHANGED otherVars

run_loop_calls ==
    \/ run_loop_new
    \/ run_loop_started
    \/ run_loop_tick
    \/ run_loop_idle
    \/ perform_mining_click_calls
    \/ \E t \in TaskType : check_and_run_tasks(t)
    \/ perform_start
    \/ perform_call
    \/ perform_finish
    \/ run_update_last_run

NextSeq ==
    \/ run_loop_calls
    \/ toggle
    \/ \E t \in TaskType : toggle_task(t)
    \/ Advance

SpecSeq == Init /\ [][NextSeq]_vars

\* ---------------------------- input.rs / main.rs: key poller, redraw loop
MaxPresses == 3

\* the keys the poller asks for, in the order of its handle_key calls
Keycode == {"F1", "F2", "F3", "F4"}
KeyOrder == <<"F1", "F2", "F3", "F4">>
KeyIdx(k) == CHOOSE i \in 1..Len(KeyOrder) : KeyOrder[i] = k

\* the closure handed to handle_key for each key
Toggled(k) ==
    CASE k = "F1" -> "master"
      [] k = "F2" -> "Upgrades"
      [] k = "F3" -> "Souls"
      [] k = "F4" -> "Prestige"

Contexts == {"poller", "ui"}
NoCall == [item |-> None, was |-> FALSE]

\* TaskType::name, and "Bot" for the master flag
name(item) == IF item = "master" THEN "Bot" ELSE item

\* the status word chosen from what fetch_xor returned
status(item, was) ==
    IF item = "master"
    THEN (IF ~was THEN "ACTIVATED" ELSE "PAUSED")
    ELSE (IF ~was THEN "ENABLED" ELSE "DISABLED")

\* the level (bot.rs) of the entry
level(item, was) ==
    IF ~was THEN "Success"
    ELSE IF item = "master" THEN "Warning" ELSE "Error"

\* the icon (main.rs) of the entry
icon(item) ==
    CASE item = "master" -> "zap"
      [] item = "Upgrades" -> "wrench"
      [] item = "Souls" -> "ghost"
      [] item = "Prestige" -> "star"

\* format!("{} {}", name, status)
message(item, was) == <<name(item), status(item, was)>>

\* a toggle whose status word is chosen from the flag read again at log time
toggle_return_rereads_flag(c) ==
    LET item == call[c].item
        was == IF item = "master" THEN ~active ELSE ~enabled[item]
    IN  /\ item # None
        /\ IF impl = "bot"
           THEN /\ entries' = Logger_log(entries, level(item, was),
                                         message(item, was))
                /\ appended' = [appended EXCEPT !.Logger = @ + 1]
                /\ UNCHANGED logs
           ELSE /\ logs' = Bot_log(logs, icon(item), message(item, was))
                /\ appended' = [appended EXCEPT !.Bot = @ + 1]
                /\ UNCHANGED entries
        /\ IF item = "master" /\ ~call[c].was
           THEN clicks' = 0 /\ session_start' = now
           ELSE UNCHANGED <<clicks, session_start>>
        /\ call' = [call EXCEPT ![c] = NoCall]
        /\ UNCHANGED <<active, enabled>>

\* a first statement that sets the flag (fetch_or) instead of flipping it
toggle_fetch_or(c, item) ==
    /\ call[c].item = None
    /\ IF item = "master"
       THEN /\ active' = TRUE
            /\ call' = [call EXCEPT ![c] = [item |-> item, was |-> active]]
            /\ UNCHANGED enabled
       ELSE /\ enabled' = [enabled EXCEPT ![item] = TRUE]
            /\ call' = [call EXCEPT ![c] = [item |-> item,
                                            was |-> enabled[item]]]
            /\ UNCHANGED active
    /\ UNCHANGED <<clicks, session_start, logVars>>

\* toggle / toggle_task, first statement: flag.fetch_xor(true, Relaxed)
toggle_fetch_xor(c, item) ==
    /\ call[c].item = None
    /\ IF item = "master"
       THEN /\ active' = ~active
            /\ call' = [call EXCEPT ![c] = [item |-> item, was |-> active]]
            /\ UNCHANGED enabled
       ELSE /\ enabled' = [enabled EXCEPT ![item] = ~enabled[item]]
            /\ call' = [call EXCEPT ![c] = [item |-> item,
                                            was |-> enabled[item]]]
            /\ UNCHANGED active
    /\ UNCHANGED <<clicks, session_start, logVars>>

\* toggle / toggle_task, the rest: the log entry, and for a master toggle that
\* found the flag off stats.reset() (before the entry in bot.rs, after it in
\* main.rs)
toggle_return(c) ==
    LET item == call[c].item
        was == call[c].was
    IN  /\ item # None
        /\ IF impl = "bot"
           THEN /\ entries' = Logger_log(entries, level(item, was),
                                         message(item, was))
                /\ appended' = [appended EXCEPT !.Logger = @ + 1]
                /\ UNCHANGED logs
           ELSE /\ logs' = Bot_log(logs, icon(item), message(item, was))
                /\ appended' = [appended EXCEPT !.Bot = @ + 1]
                /\ UNCHANGED entries
        /\ IF item = "master" /\ ~was
           THEN clicks' = 0 /\ session_start' = now
           ELSE UNCHANGED <<clicks, session_start>>
        /\ call' = [call EXCEPT ![c] = NoCall]
        /\ UNCHANGED <<active, enabled>>

inputFrame == <<last_run, now, advances, impl, schedVars, toggleVars,
                firstTick, genVars, seqVars, clicker, scrollVars,
                   lockVars, termVars, sweepVars>>

\* a key goes down
press(k) ==
    /\ k \notin keys
    /\ presses < MaxPresses
    /\ keys' = keys \cup {k}
    /\ presses' = presses + 1
    /\ UNCHANGED <<key_states, polled, prev_polled, hk, call, ui_pc, active,
                   enabled, clicks, session_start, logVars, inputFrame>>

\* a key goes up
release(k) ==
    /\ k \in keys
    /\ keys' = keys \ {k}
    /\ UNCHANGED <<presses, key_states, polled, prev_polled, hk, call, ui_pc,
                   active, enabled, clicks, session_start, logVars,
                   inputFrame>>

\* InputHandler::run: let keys = self.device.get_keys();
get_keys ==
    /\ impl \in {"bot", "main"}
    /\ hk = 0
    /\ prev_polled' = polled
    /\ polled' = keys
    /\ hk' = 1
    /\ UNCHANGED <<keys, presses, key_states, call, ui_pc, active, enabled,
                   clicks, session_start, logVars, inputFrame>>

\* after the fourth handle_key: sleep(50 ms), then the next poll
NextKey(k) == IF KeyIdx(k) < Len(KeyOrder) THEN KeyIdx(k) + 1 ELSE 0

\* a handle_key that fires whenever the key is down
handle_key_fires_on_hold(k) ==
    /\ hk = KeyIdx(k)
    /\ call["poller"].item = None
    /\ IF k \in polled
       THEN /\ toggle_fetch_xor("poller", Toggled(k))
            /\ UNCHANGED <<key_states, hk>>
       ELSE /\ key_states' = [key_states EXCEPT ![k] = (k \in polled)]
            /\ hk' = NextKey(k)
            /\ UNCHANGED <<call, active, enabled, clicks, session_start,
                           logVars>>
    /\ UNCHANGED <<keys, presses, polled, prev_polled, ui_pc, inputFrame>>

\* handle_key: let pressed = keys.contains(&key);
\* if pressed && !*state { action() } -- up to action()'s fetch_xor --
\* and, when action() is not called, *state = pressed
handle_key(k) ==
    /\ hk = KeyIdx(k)
    /\ call["poller"].item = None
    /\ IF k \in polled /\ ~key_states[k]
       THEN /\ toggle_fetch_xor("poller", Toggled(k))
            /\ UNCHANGED <<key_states, hk>>
       ELSE /\ key_states' = [key_states EXCEPT ![k] = (k \in polled)]
            /\ hk' = NextKey(k)
            /\ UNCHANGED <<call, active, enabled, clicks, session_start,
                           logVars>>
    /\ UNCHANGED <<keys, presses, polled, prev_polled, ui_pc, inputFrame>>

\* handle_key: the rest of action(), then *state = pressed
handle_key_return(k) ==
    /\ hk = KeyIdx(k)
    /\ call["poller"].item # None
    /\ toggle_return("poller")
    /\ key_states' = [key_states EXCEPT ![k] = (k \in polled)]
    /\ hk' = NextKey(k)
    /\ UNCHANGED <<keys, presses, polled, prev_polled, ui_pc, inputFrame>>

\* UI::draw -> render_ui (ui.rs), App::draw_ui (main.rs): reads is_active,
\* is_task_enabled, get_time_until_next, the counters and the log
draw ==
    /\ impl \in {"bot", "main"}
    /\ ui_pc = "draw"
    /\ ui_pc' = "poll"
    /\ UNCHANGED <<keys, presses, key_states, polled, prev_polled, hk, call,
                   active, enabled, clicks, session_start, logVars,
                   inputFrame>>

\* App::run_ui: event::poll(timeout) without one of the keys F1..F4
run_ui_poll ==
    /\ ui_pc = "poll"
    /\ ui_pc' = "draw"
    /\ UNCHANGED <<keys, presses, key_states, polled, prev_polled, hk, call,
                   active, enabled, clicks, session_start, logVars,
                   inputFrame>>

\* App::run_ui (main.rs): Event::Key(KeyCode::F(n)) => self.bot.toggle*(),
\* up to its fetch_xor
run_ui_key(k) ==
    /\ impl = "main"
    /\ ui_pc = "poll"
    /\ presses < MaxPresses
    /\ presses' = presses + 1
    /\ toggle_fetch_xor("ui", Toggled(k))
    /\ ui_pc' = "key"
    /\ UNCHANGED <<keys, key_states, polled, prev_polled, hk, inputFrame>>

\* App::run_ui (main.rs): the rest of the toggle call, then the next redraw
run_ui_key_return ==
    /\ ui_pc = "key"
    /\ toggle_return("ui")
    /\ ui_pc' = "draw"
    /\ UNCHANGED <<keys, presses, key_states, polled, prev_polled, hk,
                   inputFrame>>

\* a key goes down while the terminal of the application has the focus
\* (main.rs): the device state App::run's poller reads through
\* device.get_keys() holds it, and the terminal queues a key event for
\* event::poll / event::read of App::run_ui
press_focused(k) ==
    /\ impl = "main"
    /\ k \notin keys
    /\ presses < MaxPresses
    /\ keys' = keys \cup {k}
    /\ presses' = presses + 1
    /\ events' = Append(events, k)
    /\ UNCHANGED <<key_states, polled, prev_polled, hk, call, ui_pc, clicker,
                   active, enabled, clicks, session_start, logVars, last_run,
                   now,
                   advances, impl, schedVars, toggleVars, firstTick, genVars,
                   seqVars, scrollVars, lockVars, sweepVars>>

\* App::run_ui (main.rs): event::poll(timeout) returns true, event::read()
\* takes the oldest queued key event, and KeyCode::F(1..4) calls the toggle
\* of that key
run_ui_event ==
    /\ impl = "main"
    /\ ui_pc = "poll"
    /\ events # <<>>
    /\ events' = Tail(events)
    /\ toggle_fetch_xor("ui", Toggled(Head(events)))
    /\ ui_pc' = "key"
    /\ UNCHANGED <<keys, presses, key_states, polled, prev_polled, hk,
                   clicker, last_run, now, advances, impl, schedVars,
                   toggleVars, firstTick, genVars, seqVars, scrollVars,
                   lockVars, sweepVars>>

\* Clicker::handle_input(keys) -> Clicker::toggle(keys) (clicker.rs): the
\* stand-alone clicker, polling F1 only
Clicker_handle_input ==
    /\ impl = "clicker"
    /\ prev_polled' = polled
    /\ polled' = keys
    /\ LET f1_pressed == "F1" \in keys
       IN  clicker' = [active |-> IF f1_pressed /\ ~clicker.last_toggle
                                  THEN ~clicker.active ELSE clicker.active,
                       last_toggle |-> f1_pressed]
    /\ UNCHANGED <<keys, presses, key_states, hk, call, ui_pc, active,
                   enabled, clicks, session_start, logVars, last_run, now,
                   advances, impl, schedVars, toggleVars, firstTick, genVars,
                   seqVars, scrollVars,
                   lockVars, termVars, sweepVars>>

\* the programs of the repository that poll keys
InitInput == InitState /\ impl \in {"bot", "main", "clicker"}

NextInput ==
    \/ \E k \in Keycode : press(k)
    \/ \E k \in Keycode : release(k)
    \/ get_keys
    \/ \E k \in Keycode : handle_key(k)
    \/ \E k \in Keycode : handle_key_return(k)
    \/ draw
    \/ run_ui_poll
    \/ \E k \in Keycode : run_ui_key(k)
    \/ run_ui_key_return
    \/ Clicker_handle_input

SpecInput == InitInput /\ [][NextInput]_vars

\* ------------------- TaskManager and Stats as they are read (bot.rs, stats.rs)
MaxElapses == 3

\* the clock's progress between two calls, in seconds
ReadSteps == {1, 29, 570}

readFrame == <<active, enabled, impl, schedVars, firstTick, otherVars>>

\* time passes
Elapse ==
    /\ advances < MaxElapses
    /\ advances' = advances + 1
    /\ \E d \in ReadSteps : now' = now + d
    /\ UNCHANGED <<last_run, clicks, session_start, toggleVars, readFrame>>

\* the scheduler found t due, ran it, and calls update_last_run(t)
TaskManager_update_last_run(t) ==
    /\ should_run_task(t)
    /\ update_last_run(t)
    /\ UNCHANGED <<clicks, session_start, now, advances, toggleVars,
                   readFrame>>

\* Stats::increment_clicks
Stats_increment_clicks ==
    /\ clicks < MaxClicks
    /\ clicks' = clicks + 1
    /\ UNCHANGED <<last_run, session_start, now, advances, toggleVars,
                   readFrame>>

\* Stats::reset is called, and runs its two stores
Stats_reset_call ==
    /\ \/ /\ tpc = "idle"
          /\ tpc' = "reset_clicks"
          /\ UNCHANGED <<clicks, session_start, titem>>
       \/ Stats_reset("idle")
    /\ UNCHANGED <<last_run, now, advances, was_on, readFrame>>

NextRead ==
    \/ Elapse
    \/ \E t \in TaskType : TaskManager_update_last_run(t)
    \/ Stats_increment_clicks
    \/ Stats_reset_call

SpecRead == Init /\ [][NextRead]_vars

\* ------------------------------- main.rs App::run: the three spawned contexts
\* App::run: tokio::spawn(async move { if let Err(e) = bot.run_bot_loop().await
\* { eprintln!("Bot error: {}", e) } }) -- the scheduler task ends with the
\* message; the input handler task and run_ui are not told
run_bot_loop_err ==
    /\ impl = "main"
    /\ pc = "new"
    /\ pc' = "error"
    /\ UNCHANGED <<active, enabled, last_run, clicks, session_start, now,
                   advances, impl, cur, step, tnow, tickActive, tickInputs,
                   tickIncr, ranThisTick, foundDue, toggleVars, firstTick>>
    /\ UNCHANGED otherVars

\* the scheduler task, the input handler task and run_ui, at the startup
\* instant
NextApp ==
    \/ run_bot_loop_new
    \/ run_bot_loop_err
    \/ run_loop_started
    \/ run_loop_tick
    \/ run_loop_idle
    \/ perform_mining_click
    \/ check_scheduled_tasks_now
    \/ \E t \in TaskType : check_scheduled_tasks(t)
    \/ \E k \in Keycode : press(k)
    \/ \E k \in Keycode : release(k)
    \/ get_keys
    \/ \E k \in Keycode : handle_key(k)
    \/ \E k \in Keycode : handle_key_return(k)
    \/ draw
    \/ run_ui_poll
    \/ \E k \in Keycode : run_ui_key(k)
    \/ run_ui_key_return

SpecApp == InitMain /\ [][NextApp]_vars

\* the keys the user of the foreground application presses: the master key
\* and one task key
PressedKeys == {"F1", "F2"}

\* main.rs App::run with the keyboard as the operating system delivers it to
\* the application in the foreground: the input handler spawned at 384-420
\* and App::run_ui (432-463), each press seen by the device state and by the
\* terminal's event queue
NextKeys ==
    \/ \E k \in PressedKeys : press_focused(k)
    \/ \E k \in Keycode : release(k)
    \/ get_keys
    \/ \E k \in Keycode : handle_key(k)
    \/ \E k \in Keycode : handle_key_return(k)
    \/ draw
    \/ run_ui_poll
    \/ run_ui_event
    \/ run_ui_key_return

SpecKeys == InitMain /\ [][NextKeys]_vars

\* ----------------------------------------- bot.rs / main.rs Bot::scroll_at
MaxScroll == 8

\* the `amount` arguments tried: the sequences pass -8, 8, -2 and 2
ScrollAmounts == (0 - MaxScroll)..MaxScroll
ScrollPositions == {"SAFE_SCROLL_AREA", "UPGRADE_ICON"}

\* i32::abs
i32_abs(n) == IF n < 0 THEN 0 - n ELSE n

move_mouse(pos) == [op |-> "move_mouse", pos |-> pos, delta |-> 0]
scroll(delta) == [op |-> "scroll", pos |-> "None", delta |-> delta]

scrollFrame == <<botVars, now, advances, genVars, logVars, seqVars, inputVars,
                 lockVars, termVars, sweepVars>>

\* scroll_at(pos, amount): let _ = enigo.move_mouse(pos.x, pos.y, Abs); sleep
scroll_at_move ==
    /\ sc.pc \in {"idle", "done"}
    /\ \E pos \in ScrollPositions, amount \in ScrollAmounts :
          /\ sc' = [pc |-> "loop", pos |-> pos, amount |-> amount, i |-> 0]
          /\ issued' = <<move_mouse(pos)>>
    /\ UNCHANGED scrollFrame

\* a loop body that passes the sign of `amount` on unchanged
scroll_at_scroll_keeps_sign ==
    /\ sc.pc = "loop"
    /\ sc.i < i32_abs(sc.amount)
    /\ issued' = Append(issued, scroll(IF sc.amount > 0 THEN 1 ELSE -1))
    /\ sc' = [sc EXCEPT !.i = sc.i + 1]
    /\ UNCHANGED scrollFrame

\* for _ in 0..amount.abs() {
\*     let _ = enigo.scroll(if amount > 0 { -1 } else { 1 }, Vertical); sleep }
scroll_at_scroll ==
    /\ sc.pc = "loop"
    /\ sc.i < i32_abs(sc.amount)
    /\ issued' = Append(issued, scroll(IF sc.amount > 0 THEN -1 ELSE 1))
    /\ sc' = [sc EXCEPT !.i = sc.i + 1]
    /\ UNCHANGED scrollFrame

\* the range 0..amount.abs() is exhausted: scroll_at returns
scroll_at_return ==
    /\ sc.pc = "loop"
    /\ ~(sc.i < i32_abs(sc.amount))
    /\ sc' = [sc EXCEPT !.pc = "done"]
    /\ UNCHANGED <<issued, scrollFrame>>

NextScroll ==
    \/ scroll_at_move
    \/ scroll_at_scroll
    \/ scroll_at_return

SpecScroll == Init /\ [][NextScroll]_vars

\* ----------- bot.rs perform_*: a sequence call by call, scroll by scroll,
\* ----------- against a window that scrolls by the deltas that reach it
\* sequences run one after another
MaxSequences == 2

button == [op |-> "button", pos |-> "None", delta |-> 0]

\* the sum of the deltas of the scroll calls among the input calls cs
RECURSIVE SumDeltas(_)
SumDeltas(cs) ==
    IF cs = <<>> THEN 0 ELSE Head(cs).delta + SumDeltas(Tail(cs))

\* the entries perform_* logs: (Task, "Running ...") and
\* (Success, "... complete")
running(t) == <<t, "Running">>
complete(t) == <<t, "complete">>

sweepFrame == <<active, enabled, last_run, clicks, session_start, impl, pc,
                tnow, tickActive, tickInputs, tickIncr, ranThisTick, foundDue,
                toggleVars, firstTick, now, advances, genVars, logs,
                inputVars, lockVars, termVars>>

\* perform_upgrades / perform_souls_upgrade / perform_prestige is entered:
\* self.logger.log(LogLevel::Task, "Running ...")
perform_enter(t) ==
    /\ cur = None
    /\ seqs < MaxSequences
    /\ cur' = t
    /\ step' = 0
    /\ issued' = <<>>
    /\ before' = target
    /\ scroll_err' = FALSE
    /\ input_err' = FALSE
    /\ entries' = Logger_log(entries, "Task", running(t))
    /\ appended' = [appended EXCEPT !.Logger = @ + 1]
    /\ UNCHANGED <<sc, target, seqs, sweepFrame>>

\* click_at(pos): let _ = enigo.move_mouse(..); sleep;
\* let _ = enigo.button(Left, Click); sleep
perform_click_at ==
    /\ cur # None
    /\ step < Len(Sequence(cur))
    /\ Sequence(cur)[step + 1].op = "click_at"
    /\ issued' = issued \o <<move_mouse(Sequence(cur)[step + 1].pos), button>>
    /\ \E moved, clicked \in InputResults :
          input_err' = (input_err \/ "Err" \in {moved, clicked})
    /\ step' = step + 1
    /\ UNCHANGED <<cur, sc, entries, appended, sweepVars, sweepFrame>>

\* scroll_at(pos, amount): let _ = enigo.move_mouse(pos.x, pos.y, Abs); sleep
perform_scroll_at ==
    /\ cur # None
    /\ step < Len(Sequence(cur))
    /\ Sequence(cur)[step + 1].op = "scroll_at"
    /\ sc.pc # "loop"
    /\ sc' = [pc |-> "loop", pos |-> Sequence(cur)[step + 1].pos,
              amount |-> Sequence(cur)[step + 1].amount, i |-> 0]
    /\ issued' = Append(issued, move_mouse(Sequence(cur)[step + 1].pos))
    /\ \E moved \in InputResults : input_err' = (input_err \/ moved = "Err")
    /\ UNCHANGED <<cur, step, entries, appended, sweepVars, sweepFrame>>

\* a loop body that scrolls the same way whatever the sign of `amount`
perform_scroll_one_way ==
    /\ cur # None
    /\ sc.pc = "loop"
    /\ sc.i < i32_abs(sc.amount)
    /\ LET delta == -1
       IN  /\ issued' = Append(issued, scroll(delta))
           /\ \E scrolled \in InputResults :
                 /\ target' = IF scrolled = "Ok" THEN target + delta
                                                ELSE target
                 /\ scroll_err' = (scroll_err \/ scrolled = "Err")
                 /\ input_err' = (input_err \/ scrolled = "Err")
    /\ sc' = [sc EXCEPT !.i = sc.i + 1]
    /\ UNCHANGED <<cur, step, entries, appended, before, seqs, sweepFrame>>

\* scroll_at: for _ in 0..amount.abs() {
\*     let _ = enigo.scroll(if amount > 0 { -1 } else { 1 }, Vertical); sleep }
\* one pass of the loop: the window moves by the delta unless the call
\* returned Err, and the result is dropped
perform_scroll ==
    /\ cur # None
    /\ sc.pc = "loop"
    /\ sc.i < i32_abs(sc.amount)
    /\ LET delta == IF sc.amount > 0 THEN -1 ELSE 1
       IN  /\ issued' = Append(issued, scroll(delta))
           /\ \E scrolled \in InputResults :
                 /\ target' = IF scrolled = "Ok" THEN target + delta
                                                ELSE target
                 /\ scroll_err' = (scroll_err \/ scrolled = "Err")
                 /\ input_err' = (input_err \/ scrolled = "Err")
    /\ sc' = [sc EXCEPT !.i = sc.i + 1]
    /\ UNCHANGED <<cur, step, entries, appended, before, seqs, sweepFrame>>

\* scroll_at: the range 0..amount.abs() is exhausted, the call returns
perform_scroll_at_return ==
    /\ cur # None
    /\ sc.pc = "loop"
    /\ ~(sc.i < i32_abs(sc.amount))
    /\ sc' = [sc EXCEPT !.pc = "done"]
    /\ step' = step + 1
    /\ UNCHANGED <<cur, issued, input_err, entries, appended, sweepVars,
                   sweepFrame>>

\* a sequence that returns without its "... complete" entry
perform_exit_silent ==
    /\ cur # None
    /\ step = Len(Sequence(cur))
    /\ cur' = None
    /\ seqs' = seqs + 1
    /\ UNCHANGED <<step, sc, issued, input_err, target, before, scroll_err,
                   entries, appended, sweepFrame>>

\* perform_*: after its last call, self.logger.log(Success, "... complete")
perform_exit ==
    /\ cur # None
    /\ step = Len(Sequence(cur))
    /\ entries' = Logger_log(entries, "Success", complete(cur))
    /\ appended' = [appended EXCEPT !.Logger = @ + 1]
    /\ cur' = None
    /\ seqs' = seqs + 1
    /\ UNCHANGED <<step, sc, issued, input_err, target, before, scroll_err,
                   sweepFrame>>

NextSweep ==
    \/ \E t \in TaskType : perform_enter(t)
    \/ perform_click_at
    \/ perform_scroll_at
    \/ perform_scroll
    \/ perform_scroll_at_return
    \/ perform_exit

SpecSweep == Init /\ [][NextSweep]_vars

\* ------------- bot.rs: the sequences and the toggles writing the one log
\* the flag toggled while the sequences run
TrailItems == {"master"}

\* earlier toggles by the time the observation starts
EarlierToggles == 46

\* run_loop: self.logger.log(LogLevel::Info, "Bot loop started")
started == <<"Bot", "loop started">>

\* what the log holds after the loop started, F1 switched the bot on, the
\* first upgrades run completed and F1 was pressed EarlierToggles more times
EarlierEntries ==
    << LogEntry("Info", started),
       LogEntry(level("master", FALSE), message("master", FALSE)),
       LogEntry("Task", running("Upgrades")),
       LogEntry("Success", complete("Upgrades")) >>
    \o [i \in 1..EarlierToggles |->
           LogEntry(level("master", i % 2 = 1), message("master", i % 2 = 1))]

\* the program at that moment: the bot switched on again by the last of
\* these presses, no click and no clock tick since
InitTrail ==
    /\ active = TRUE
    /\ enabled = [t \in TaskType |-> TRUE]
    /\ last_run = [TaskManager_new(0)
                      EXCEPT !["Upgrades"] = UPGRADE_INTERVAL + 1]
    /\ clicks = 0
    /\ session_start = UPGRADE_INTERVAL + 1
    /\ now = UPGRADE_INTERVAL + 1
    /\ advances = 0
    /\ pc = "new"
    /\ cur = None
    /\ step = 0
    /\ tnow = 0
    /\ tickActive = FALSE
    /\ tickInputs = 0
    /\ tickIncr = 0
    /\ ranThisTick = <<>>
    /\ foundDue = {}
    /\ tpc = "idle"
    /\ titem = None
    /\ was_on = FALSE
    /\ firstTick = "none"
    /\ tasks = <<>>
    /\ ti = 0
    /\ seval = [task |-> 0, elapsed |-> 0, interval |-> 0, due |-> FALSE]
    /\ entries = EarlierEntries
    /\ logs = <<>>
    /\ appended = [Logger |-> Len(EarlierEntries), Bot |-> 0]
    /\ input_err = FALSE
    /\ keys = {}
    /\ presses = 0
    /\ key_states = [k \in {"F1", "F2", "F3", "F4"} |-> FALSE]
    /\ polled = {}
    /\ prev_polled = {}
    /\ hk = 0
    /\ call = [c \in {"poller", "ui"} |-> [item |-> "None", was |-> FALSE]]
    /\ ui_pc = "draw"
    /\ clicker = [active |-> FALSE, last_toggle |-> FALSE]
    /\ sc = [pc |-> "idle", pos |-> "None", amount |-> 0, i |-> 0]
    /\ issued = <<>>
    /\ held = [l \in TaskType \cup {"entries", "session_start"} |-> {}]
    /\ lpc = [c \in {"scheduler", "poller", "ui"} |->
                 [at |-> "out", lock |-> "None", mode |-> "None"]]
    /\ snap = <<>>
    /\ events = <<>>
    /\ target = 0
    /\ before = 0
    /\ scroll_err = FALSE
    /\ seqs = 0
    /\ impl = "bot"

\* a context calls Bot::toggle / Bot::toggle_task: the fetch_xor
toggle_begin(item) ==
    /\ presses < MaxPresses
    /\ presses' = presses + 1
    /\ toggle_fetch_xor("poller", item)
    /\ UNCHANGED <<last_run, now, advances, impl, schedVars, toggleVars,
                   firstTick, genVars, seqVars, keys, key_states, polled,
                   prev_polled, hk, ui_pc, clicker, scrollVars, lockVars,
                   termVars, sweepVars>>

\* Bot::toggle / Bot::toggle_task: the reset when activating, the log entry
toggle_end ==
    /\ toggle_return("poller")
    /\ UNCHANGED <<last_run, now, advances, impl, schedVars, toggleVars,
                   firstTick, genVars, seqVars, keys, presses, key_states,
                   polled, prev_polled, hk, ui_pc, clicker, scrollVars,
                   lockVars, termVars, sweepVars>>

NextTrail ==
    \/ \E t \in TaskType : perform_enter(t)
    \/ perform_click_at
    \/ perform_scroll_at
    \/ perform_scroll
    \/ perform_scroll_at_return
    \/ perform_exit
    \/ \E item \in TrailItems : toggle_begin(item)
    \/ toggle_end

SpecTrail == InitTrail /\ [][NextTrail]_vars

\* --------------- the RwLocks of bot.rs, stats.rs and logger.rs, guard by guard
\* the contexts: the scheduler task, the key poller task, the redraw loop
Tasks3 == {"scheduler", "poller", "ui"}
\* TaskManager.last_* (one lock per task), Logger.entries, Stats.session_start
Locks == TaskType \cup {"entries", "session_start"}

\* the lock.read() calls each context makes: should_run_task in the scheduler;
\* get_time_until_next, get_cpm / get_runtime and get_entries in the redraw loop
ReadsOf(c) ==
    CASE c = "scheduler" -> TaskType
      [] c = "poller" -> {}
      [] c = "ui" -> Locks

\* the lock.write() calls each context makes: update_last_run and Logger::log
\* in the scheduler; Stats::reset and Logger::log in a toggle of the poller
WritesOf(c) ==
    CASE c = "scheduler" -> TaskType \cup {"entries"}
      [] c = "poller" -> {"session_start", "entries"}
      [] c = "ui" -> {}

Out == [at |-> "out", lock |-> "None", mode |-> "None"]
Guard(l, m) == [at |-> "locked", lock |-> l, mode |-> m]

lockFrame == <<botVars, now, advances, genVars, seqVars, inputVars, scrollVars,
               termVars, sweepVars>>

\* an await entered with the context's guard still alive
await_holding(c) ==
    /\ lpc[c].at \in {"out", "locked"}
    /\ lpc' = [lpc EXCEPT ![c].at = "await"]
    /\ UNCHANGED <<held, snap, logVars, lockFrame>>

\* the context reaches an .await: interval.tick(), a sleep, or (scheduler) an
\* input call of click_at / scroll_at; no guard is in scope at any of them
await(c) ==
    /\ lpc[c].at = "out"
    /\ lpc' = [lpc EXCEPT ![c].at = "await"]
    /\ UNCHANGED <<held, snap, logVars, lockFrame>>

\* the await completes
resume(c) ==
    /\ lpc[c].at = "await"
    /\ lpc' = [lpc EXCEPT ![c] = Out]
    /\ UNCHANGED <<held, snap, logVars, lockFrame>>

\* a read() that does not wait for the writer
read_ignores_writer(c, l) ==
    /\ lpc[c].at = "out"
    /\ l \in ReadsOf(c)
    /\ held' = [held EXCEPT ![l] = @ \cup {<<c, "r">>}]
    /\ lpc' = [lpc EXCEPT ![c] = Guard(l, "r")]
    /\ UNCHANGED <<snap, logVars, lockFrame>>

\* lock.read(): granted when no write guard is alive
read(c, l) ==
    /\ lpc[c].at = "out"
    /\ l \in ReadsOf(c)
    /\ \A h \in held[l] : h[2] = "r"
    /\ held' = [held EXCEPT ![l] = @ \cup {<<c, "r">>}]
    /\ lpc' = [lpc EXCEPT ![c] = Guard(l, "r")]
    /\ UNCHANGED <<snap, logVars, lockFrame>>

\* lock.write(): granted when no guard is alive
write(c, l) ==
    /\ lpc[c].at = "out"
    /\ l \in WritesOf(c)
    /\ l = "entries" => appended.Logger < MaxAppends
    /\ held[l] = {}
    /\ held' = [held EXCEPT ![l] = {<<c, "w">>}]
    /\ lpc' = [lpc EXCEPT ![c] = Guard(l, "w")]
    /\ UNCHANGED <<snap, logVars, lockFrame>>

\* a statement that ends with its guard still alive
drop_keeps_guard(c) ==
    /\ lpc[c].at = "locked"
    /\ lpc[c].lock # "entries"
    /\ lpc' = [lpc EXCEPT ![c] = Out]
    /\ UNCHANGED <<held, snap, logVars, lockFrame>>

\* the guard of `*lock.read()`, `lock.read().elapsed()` or `*lock.write() = now`
\* is a temporary: it is dropped at the end of the statement
drop(c) ==
    /\ lpc[c].at = "locked"
    /\ lpc[c].lock # "entries"
    /\ held' = [held EXCEPT ![lpc[c].lock] = @ \ {<<c, lpc[c].mode>>}]
    /\ lpc' = [lpc EXCEPT ![c] = Out]
    /\ UNCHANGED <<snap, logVars, lockFrame>>

\* Logger::log: let mut entries = self.entries.write(); entries.push(..)
Logger_log_push(c) ==
    /\ lpc[c] = Guard("entries", "w")
    /\ entries' = Append(entries, LogEntry("Info", appended.Logger + 1))
    /\ appended' = [appended EXCEPT !.Logger = appended.Logger + 1]
    /\ lpc' = [lpc EXCEPT ![c].at = "pushed"]
    /\ UNCHANGED <<held, snap, logs, lockFrame>>

\* Logger::log: if entries.len() > MAX_LOGS { entries.drain(0..excess) }, then
\* the guard goes out of scope
Logger_log_drain(c) ==
    /\ lpc[c].at = "pushed"
    /\ entries' = IF Len(entries) > MAX_LOGS
                  THEN SubSeq(entries, (Len(entries) - MAX_LOGS) + 1,
                              Len(entries))
                  ELSE entries
    /\ held' = [held EXCEPT !["entries"] = @ \ {<<c, "w">>}]
    /\ lpc' = [lpc EXCEPT ![c] = Out]
    /\ UNCHANGED <<snap, logs, appended, lockFrame>>

\* Logger::get_entries: self.entries.read().clone()
get_entries_clone(c) ==
    /\ lpc[c] = Guard("entries", "r")
    /\ snap' = entries
    /\ held' = [held EXCEPT !["entries"] = @ \ {<<c, "r">>}]
    /\ lpc' = [lpc EXCEPT ![c] = Out]
    /\ UNCHANGED <<logVars, lockFrame>>

NextLock ==
    \/ \E c \in Tasks3 : await(c)
    \/ \E c \in Tasks3 : resume(c)
    \/ \E c \in Tasks3, l \in Locks : read(c, l)
    \/ \E c \in Tasks3, l \in Locks : write(c, l)
    \/ \E c \in Tasks3 : drop(c)
    \/ \E c \in Tasks3 : Logger_log_push(c)
    \/ \E c \in Tasks3 : Logger_log_drain(c)
    \/ \E c \in Tasks3 : get_entries_clone(c)

SpecLock == Init /\ [][NextLock]_vars

\* the statement after lock.read() / lock.write(): the use of the guard and
\* its drop, or the next statement of Logger::log
guard_step(c) ==
    \/ drop(c)
    \/ Logger_log_push(c)
    \/ Logger_log_drain(c)
    \/ get_entries_clone(c)

\* appends to the log in the runs of FairLock
MaxLogged == 3

\* lock.write(), while the log has been handed fewer than MaxLogged entries
write_few(c, l) ==
    /\ appended.Logger < MaxLogged
    /\ write(c, l)

NextFairLock ==
    \/ \E c \in Tasks3 : await(c)
    \/ \E c \in Tasks3 : resume(c)
    \/ \E c \in Tasks3, l \in Locks : read(c, l)
    \/ \E c \in Tasks3, l \in Locks : write_few(c, l)
    \/ \E c \in Tasks3 : guard_step(c)

\* every context keeps running: a thread that holds a guard is not suspended
\* (no await lies between lock and drop) and goes on to its next statement
FairLock ==
    /\ Init
    /\ [][NextFairLock]_vars
    /\ \A c \in Tasks3 : WF_vars(guard_step(c))

Next ==
    \/ run_loop
    \/ toggle
    \/ \E t \in TaskType : toggle_task(t)
    \/ Advance

Spec == Init /\ [][Next]_vars

\* ----------------------------------- bot.rs, the loop running without end
\* run_loop_tick for a click counter followed only up to MaxClicks
run_loop_tick_on ==
    /\ pc = "tick"
    /\ tickActive' = active
    /\ pc' = IF active THEN "mine" ELSE "idle"
    /\ firstTick' = IF active /\ firstTick = "pending" THEN "running"
                    ELSE firstTick
    /\ UNCHANGED <<active, enabled, last_run, clicks, session_start, now,
                   advances, impl, cur, step, tnow, tickInputs, tickIncr,
                   ranThisTick, foundDue, toggleVars>>
    /\ UNCHANGED otherVars

\* perform_mining_click for a click counter followed only up to MaxClicks
\* (MaxClicks stands for "MaxClicks or more")
perform_mining_click_on ==
    /\ pc = "mine"
    /\ tickInputs' = tickInputs + 2
    /\ clicks' = IF clicks < MaxClicks THEN clicks + 1 ELSE clicks
    /\ tickIncr' = tickIncr + 1
    /\ pc' = "check"
    /\ cur' = TaskOrder[1]
    /\ firstTick' = IF firstTick = "running" THEN "done" ELSE firstTick
    /\ UNCHANGED <<active, enabled, last_run, session_start, now, advances,
                   impl, step, tnow, tickActive, ranThisTick, foundDue,
                   toggleVars>>
    /\ UNCHANGED otherVars

run_loop_on ==
    \/ run_loop_new
    \/ run_loop_started
    \/ run_loop_tick_on
    \/ run_loop_idle
    \/ perform_mining_click_on
    \/ \E t \in TaskType : check_and_run_tasks(t)
    \/ perform_start
    \/ perform_complete
    \/ run_update_last_run

\* the operator toggles the master flag only: every task's flag stays on
NextOn ==
    \/ run_loop_on
    \/ toggle
    \/ Advance

\* the scheduler is a spawned task of the runtime: whenever it can take its
\* next step (a timer tick, a sleep, an input call returning) it eventually does
FairSpec == Init /\ [][NextOn]_vars /\ WF_vars(run_loop_on)

\* ================================================================ claims
Range(f) == {f[i] : i \in DOMAIN f}

InTick == pc \in {"check", "perform", "run", "update"}

\* a step of the key poller (of a toggle call)
TogglerStep == tpc' # tpc
\* the step that starts a task's sequence (its "Running ..." entry)
SequenceStarts == pc = "perform" /\ pc' = "run"

C3_DueIsStrict ==
    /\ \A t \in TaskType :
          should_run_task(t) <=> (now - last_run[t]) > Interval(t)
    /\ \A i \in DOMAIN tasks :
          TimedTask_should_run(tasks[i])
              <=> (now - tasks[i].last_run) > tasks[i].interval
    /\ seval.due <=> seval.elapsed > seval.interval

\* C4 (as stated): last_run is written after the last step of the sequence
\* with the time of completion, i.e. every write stores the clock's value at
\* the write, and the task is not due right after the write.
C4_LastRunIsCompletionTime ==
    [][\A t \in TaskType :
          last_run'[t] # last_run[t]
              => /\ last_run'[t] = now
                 /\ ~((now - last_run'[t]) > Interval(t))]_vars

\* C5: a tick that finds the master flag off performs no primary action:
\* it issues no input call and does not increment the click counter, it only
\* idles; input calls and increments occur only in ticks that read the flag on.
C5_InactiveTickDoesNothing ==
    ~tickActive =>
        /\ tickInputs = 0
        /\ tickIncr = 0
        /\ pc \in {"new", "error", "log_started", "tick", "idle"}

C5_Witness == pc = "idle" /\ ~active /\ clicks > 0 /\ tpc = "idle"

\* C6 (as stated): after the master flag is toggled from off to on, the next
\* tick performs exactly one primary action and the click counter reads 1
\* once that primary action and the toggle call are both complete.
C6_FirstTickCountsOne ==
    (firstTick = "done" /\ tpc = "idle") => (tickIncr = 1 /\ clicks = 1)

\* C7: a master toggle resets the counters exactly when it flips the flag
\* from off to on: the activating call stores 0 in the click counter and then
\* the current time in session_start before it logs; the pausing call goes
\* straight to its log entry and writes neither.
C7_ResetExactlyOnActivation ==
    [][/\ (tpc = "idle" /\ titem' = "master")
            => /\ active' = ~active
               /\ was_on' = active
               /\ tpc' = IF active THEN "log" ELSE "reset_clicks"
               /\ clicks' = clicks /\ session_start' = session_start
       /\ (TogglerStep /\ tpc = "reset_clicks")
            => ~was_on /\ clicks' = 0 /\ tpc' = "reset_start"
       /\ (TogglerStep /\ tpc = "reset_start")
            => ~was_on /\ session_start' = now /\ tpc' = "log"
       /\ (TogglerStep /\ tpc = "log")
            => clicks' = clicks /\ session_start' = session_start
       /\ (TogglerStep /\ titem = "master" /\ was_on)
            => clicks' = clicks /\ session_start' = session_start]_vars

C7_Witness ==
    /\ tpc = "log"
    /\ titem = "master"
    /\ ~was_on
    /\ session_start = now
    /\ now > 0
    /\ clicks = 0
    /\ pc = "idle"

\* C8 (as stated): while a task's enabled flag is false its sequence does not
\* start, in every interleaving of the toggle with the tick.
C8_NoStartWhileDisabled == [][SequenceStarts => enabled[cur]]_vars

\* C8 (amended): an evaluation of a task that reads its enabled flag false
\* never starts the sequence, however long ago the last run was; a sequence
\* starts only after an evaluation in the same tick that read the flag true
\* (a toggle landing after that read does not stop the start).
C8_DisabledEvaluationNeverStarts ==
    [][/\ (pc = "check" /\ ~enabled[cur]) => pc' # "perform"
       /\ (pc' = "perform" /\ pc # "perform")
            => pc = "check" /\ enabled[cur] /\ cur' = cur
       /\ SequenceStarts => cur \in foundDue /\ cur' = cur]_vars

C8_Witness ==
    /\ pc = "check"
    /\ cur = "Souls"
    /\ tickActive
    /\ ~enabled["Upgrades"]
    /\ (now - last_run["Upgrades"]) > Interval("Upgrades")
    /\ ranThisTick = <<>>
    /\ tpc = "idle"

\* C9: no step of a toggle call changes any last_run; a last_run changes only
\* in the scheduler's update step after a sequence, and only the last_run of
\* the task that ran.
C9_TogglesLeaveLastRun ==
    [][/\ (TogglerStep \/ active' # active \/ enabled' # enabled)
            => last_run' = last_run
       /\ last_run' # last_run
            => /\ pc = "update"
               /\ pc' # "update"
               /\ \A t \in TaskType \ {cur} : last_run'[t] = last_run[t]]_vars

C9_Witness ==
    /\ tpc = "log"
    /\ titem = "Upgrades"
    /\ ~was_on
    /\ enabled["Upgrades"]
    /\ last_run["Upgrades"] > 0
    /\ last_run["Upgrades"] < now

\* C10 (as stated): no periodic task sequence starts while the master flag is
\* off.
C10_NoStartWhileMasterOff == [][SequenceStarts => active]_vars

\* C10 (amended): no task is evaluated and no sequence starts in a tick whose
\* idle check read the master flag off; the flag is read once per tick, so
\* after it is toggled off during a sequence the remaining due tasks of that
\* tick still start, and nothing starts in a later tick that reads it off.
C10_NoStartInInactiveTick ==
    [][/\ (pc = "tick" /\ pc' # "tick") => tickActive' = active
       /\ (pc = "idle" /\ pc' # "idle") => pc' = "tick"
       /\ (InTick' \/ SequenceStarts) => tickActive']_vars

C10_Witness ==
    /\ pc = "run"
    /\ cur = "Souls"
    /\ ~active
    /\ tpc = "idle"
    /\ ranThisTick = <<"Upgrades", "Souls">>

\* the entries of log `l` are exactly the last `k` of the `n` entries handed
\* to it so far, oldest first
KeepsLast(l, n, k) ==
    /\ Len(l) = (IF n > k THEN k ELSE n)
    /\ \A i \in 1..Len(l) : l[i].message = (n - Len(l)) + i

\* C11: after any sequence of appends the activity log holds at most K = 50
\* entries, and once more than K entries were appended it holds exactly the K
\* most recently appended ones in the order of their appends, oldest first;
\* for the Logger of logger.rs and for the log of main.rs.
C11_LogKeepsLastK ==
    /\ Len(entries) <= 50
    /\ Len(logs) <= 50
    /\ KeepsLast(get_entries, appended.Logger, 50)
    /\ KeepsLast(logs, appended.Bot, 50)

C11_Witness ==
    /\ appended.Logger = 52
    /\ Len(entries) = 50
    /\ entries[1].message = 3
    /\ entries[50].message = 52
    /\ appended.Bot = 51
    /\ Len(logs) = 50
    /\ logs[1].message = 2

\* a step of the scheduler inside a running sequence
RunningStep == pc = "run" /\ (pc' # pc \/ step' # step \/ cur' # cur)

\* C12: once a sequence has started, the scheduler's only steps are the
\* sequence's calls, one after the other in the order of the sequence, then
\* its completion, then the write of the task's last_run, and the next of
\* these steps can always be taken (nothing the toggles do blocks or cancels
\* it); a toggle of the master flag or of the task's flag while the sequence
\* runs leaves the sequence where it is.
C12_StartedSequenceCompletes ==
    /\ [](pc = "run" => ENABLED (perform_call \/ perform_finish))
    /\ [](pc = "update" => ENABLED run_update_last_run)
    /\ [][/\ RunningStep =>
               /\ cur' = cur
               /\ \/ /\ step < Len(Sequence(cur))
                     /\ pc' = "run"
                     /\ step' = step + 1
                     /\ tickInputs' =
                            tickInputs + InputCalls(Sequence(cur)[step + 1])
                  \/ /\ step = Len(Sequence(cur))
                     /\ pc' = "update"
                     /\ step' = step
          /\ (pc = "update" /\ pc' # pc) =>
               last_run' = [last_run EXCEPT ![cur] = now]
          /\ (pc \in {"run", "update"}
                /\ (active' # active \/ enabled' # enabled)) =>
               pc' = pc /\ cur' = cur /\ step' = step]_vars

C12_Witness ==
    /\ pc = "update"
    /\ cur = "Upgrades"
    /\ step = Len(perform_upgrades)
    /\ tickActive
    /\ ~active
    /\ ~enabled["Upgrades"]
    /\ tickInputs = 2 + TotalInputCalls(perform_upgrades)

\* the flag a toggle call is about
Flag(item) == IF item = "master" THEN active ELSE enabled[item]
\* the log the running program appends to
ActivityLog == IF impl = "bot" THEN entries ELSE logs
\* context c enters / leaves a toggle call in this step
CallStarts(c) == call[c].item = None /\ call'[c].item # None
CallReturns(c) == call[c].item # None /\ call'[c].item = None

\* C13: every toggle call (master or per-task) appends exactly one log
\* entry: its first step flips exactly the flag of its item and appends
\* nothing, its last step appends exactly one entry, and no other step
\* appends; the entry names the toggled item and says ACTIVATED / ENABLED iff
\* this call's flip made the flag true and PAUSED / DISABLED iff it made it
\* false, whatever another context did to the flag in between.
C13_ToggleLogsItsOwnResult ==
    [][/\ \A c \in Contexts :
             CallStarts(c) =>
                 \A item \in {"master"} \cup TaskType :
                     call'[c].item = item =>
                         /\ Flag(item)' = ~Flag(item)
                         /\ call'[c].was = Flag(item)
                         /\ \A o \in {"master"} \cup TaskType :
                                o # item => Flag(o)' = Flag(o)
                         /\ ActivityLog' = ActivityLog
       /\ \A c \in Contexts :
             CallReturns(c) =>
                 LET item == call[c].item
                     became == ~call[c].was
                     word == IF item = "master"
                             THEN (IF became THEN "ACTIVATED" ELSE "PAUSED")
                             ELSE (IF became THEN "ENABLED" ELSE "DISABLED")
                     who == IF item = "master" THEN "Bot" ELSE item
                 IN  /\ Len(ActivityLog') = Len(ActivityLog) + 1
                     /\ SubSeq(ActivityLog', 1, Len(ActivityLog)) = ActivityLog
                     /\ ActivityLog'[Len(ActivityLog')].message = <<who, word>>
                     /\ active' = active /\ enabled' = enabled
       /\ (active' # active \/ enabled' # enabled) =>
             \E c \in Contexts : CallStarts(c)
       /\ (entries' # entries \/ logs' # logs) =>
             \E c \in Contexts : CallReturns(c)]_vars

C13_Witness ==
    /\ impl = "main"
    /\ Len(logs) = 2
    /\ logs[1].message = <<"Bot", "PAUSED">>
    /\ logs[2].message = <<"Bot", "ACTIVATED">>
    /\ ~active
    /\ call["poller"].item = None
    /\ call["ui"].item = None

\* the poller is handling key k, and finishes with it in this step
HandleKeyEnds(k) == hk = KeyIdx(k) /\ hk' # hk

\* C17: the key poller invokes a key's toggle exactly once per press edge:
\* handle_key starts the key's toggle call iff the key is down in this poll
\* and was not down in the poll before, never while it is held since the
\* previous poll and never when it is up; it starts the call of that key's
\* item only; each key's remembered state is the key's state at the latest
\* poll that handled it, whatever the other keys do.  The same for the F1 of
\* the stand-alone Clicker.
C17_OncePerPressEdge ==
    /\ [](\A k \in Keycode :
             impl # "clicker" =>
             key_states[k] =
                 IF hk = 0 \/ KeyIdx(k) < hk
                 THEN (k \in polled) ELSE (k \in prev_polled))
    /\ [](impl = "clicker" => clicker.last_toggle = ("F1" \in polled))
    /\ [][/\ CallStarts("poller") =>
               \E k \in Keycode :
                   /\ hk = KeyIdx(k)
                   /\ k \in polled
                   /\ k \notin prev_polled
                   /\ call'["poller"].item = Toggled(k)
                   /\ hk' = hk
          /\ \A k \in Keycode :
               HandleKeyEnds(k) =>
                   /\ (k \in polled /\ k \notin prev_polled)
                          <=> CallReturns("poller")
                   /\ key_states' = [key_states EXCEPT ![k] = (k \in polled)]
          /\ clicker'.active # clicker.active
               <=> (impl = "clicker" /\ "F1" \in polled' /\ "F1" \notin polled
                      /\ (polled' # polled \/ prev_polled' # prev_polled))]_vars

C17_Witness ==
    /\ impl = "bot"
    /\ hk = 0
    /\ "F1" \in polled
    /\ "F1" \in prev_polled
    /\ "F2" \in polled
    /\ "F2" \notin prev_polled
    /\ active
    /\ ~enabled["Upgrades"]
    /\ appended.Logger = 2

\* a step of the redraw loop
PresentationStep == ui_pc' # ui_pc

\* C19 (as stated): no step of the presentation / redraw loop changes the
\* master flag, a task's enabled flag, a last_run, the counters or the log.
C19_PresentationReadOnly ==
    [][PresentationStep =>
          UNCHANGED <<active, enabled, last_run, clicks, session_start,
                      entries, logs>>]_vars

\* C14: time_remaining of a task is interval - elapsed while elapsed <=
\* interval and zero once elapsed > interval; it is never negative.
C14_TimeRemainingSaturates ==
    \A t \in TaskType :
        LET elapsed == now - last_run[t]
        IN  /\ get_time_until_next(t) >= 0
            /\ elapsed <= Interval(t)
                   => get_time_until_next(t) = Interval(t) - elapsed
            /\ elapsed > Interval(t) => get_time_until_next(t) = 0

C14_Witness ==
    /\ now = 1169
    /\ last_run["Upgrades"] = 1140
    /\ get_time_until_next("Upgrades") = 1
    /\ last_run["Souls"] = 0
    /\ get_time_until_next("Souls") = 0
    /\ last_run["Prestige"] = 1140
    /\ get_time_until_next("Prestige") = 571

\* C15: the rate is 0 when the session's elapsed whole seconds are 0, and
\* otherwise floor(click_count * 60 / elapsed_seconds), i.e. the one integer
\* r with r * elapsed <= count * 60 < (r + 1) * elapsed.
C15_RateGuardsZeroElapsed ==
    LET elapsed == now - session_start
    IN  /\ elapsed >= 0
        /\ elapsed = 0 => get_cpm = 0
        /\ elapsed > 0 =>
              /\ get_cpm * elapsed <= clicks * 60
              /\ clicks * 60 < (get_cpm + 1) * elapsed

C15_Witness ==
    /\ clicks = 2
    /\ now - session_start = 29
    /\ get_cpm = 4
    /\ tpc = "idle"

\* C16: every task's last_run is non-decreasing over the whole run: no step
\* stores a time earlier than the value it replaces (main.rs stores the time
\* captured at the start of the tick's checks, which is still not earlier).
C16_LastRunMonotonic ==
    [][\A t \in TaskType : last_run'[t] >= last_run[t]]_vars

C16_Witness ==
    /\ impl = "main"
    /\ now = 1200
    /\ tnow = 600
    /\ last_run["Upgrades"] = 600
    /\ ranThisTick = <<"Upgrades">>
    /\ pc = "check"
    /\ cur = "Souls"

\* a step that issues input calls
InputIssued == tickInputs' > tickInputs

\* C18: only the scheduler issues input calls, one sequence at a time: a
\* step that issues input calls is a step of the scheduler at its primary
\* action or inside a running sequence, never a step of a toggle call or of
\* the clock; while a sequence is running the only input calls are that
\* sequence's next call, the primary action is not performed (the click
\* counter is not incremented) and no other sequence starts.
C18_InputCallsSerialized ==
    [][/\ InputIssued =>
            /\ pc \in {"mine", "run"}
            /\ ~TogglerStep
            /\ now' = now
            /\ active' = active /\ enabled' = enabled
       /\ pc = "run" =>
            /\ tickIncr' = tickIncr
            /\ clicks' <= clicks
            /\ ranThisTick' = ranThisTick
            /\ pc' \in {"run", "update"}
            /\ InputIssued =>
                 /\ cur' = cur
                 /\ step' = step + 1
                 /\ tickInputs' =
                        tickInputs + InputCalls(Sequence(cur)[step + 1])
       /\ tickIncr' > tickIncr => pc = "mine" /\ tickInputs' = tickInputs + 2
       /\ ranThisTick' # ranThisTick /\ pc' # "tick" =>
            pc = "perform" /\ tickInputs' = tickInputs]_vars

C18_Witness ==
    /\ pc = "run"
    /\ cur = "Souls"
    /\ step = 3
    /\ ranThisTick = <<"Upgrades", "Souls">>
    /\ tickIncr = 1
    /\ tickInputs = 2 + TotalInputCalls(perform_upgrades) + 6
    /\ tpc = "log"

\* C20: a failing input call aborts nothing: after an input call of the tick
\* has returned Err, the primary action still increments the click counter,
\* the sequence still makes its remaining calls one by one in order and
\* completes, last_run is still written with the current time, and the loop
\* goes on to the next check or the next tick (its next step can always be
\* taken); the loop ends only when Enigo::new fails before the first tick.
C20_FailedInputAbortsNothing ==
    /\ [](pc = "error" => (tickInputs = 0 /\ clicks = 0 /\ ~input_err))
    /\ [](input_err /\ pc \in {"check", "perform", "run", "update"}
            => ENABLED run_loop_calls)
    /\ [][/\ (pc = "mine" /\ pc' # pc) =>
               /\ clicks' = clicks + 1
               /\ tickIncr' = tickIncr + 1
               /\ pc' = "check"
          /\ (input_err /\ RunningStep) =>
               /\ cur' = cur
               /\ IF step < Len(Sequence(cur))
                  THEN pc' = "run" /\ step' = step + 1
                  ELSE pc' = "update" /\ step' = step
          /\ (input_err' /\ ~input_err /\ pc = "run") =>
               pc' = "run" /\ step' = step + 1 /\ cur' = cur
          /\ (input_err /\ pc = "update" /\ pc' # pc) =>
               /\ last_run' = [last_run EXCEPT ![cur] = now]
               /\ pc' \in {"check", "tick"}
          /\ (pc' = "error" /\ pc # "error") => pc = "new"]_vars

C20_Witness ==
    /\ input_err
    /\ pc = "tick"
    /\ clicks = 1
    /\ active
    /\ last_run["Upgrades"] = 60
    /\ last_run["Souls"] = 0
    /\ now = 60

\* a step of the input handler task or of run_ui
ProcessStep == hk' # hk \/ call' # call \/ ui_pc' # ui_pc

Executing == Range(ranThisTick) \cup (IF pc = "perform" THEN {cur} ELSE {})

\* C22: at startup (the clock at 0) the master flag is off, every task's
\* enabled flag is on and every last_run is the startup time, so no task is
\* due at startup; and whenever a task executes, more than its interval has
\* elapsed since startup.
C22_StartupState ==
    /\ ~active
    /\ \A t \in TaskType :
          enabled[t] /\ last_run[t] = now /\ ~should_run_task(t)
    /\ [](\A t \in Executing : now > Interval(t))

C22_Witness ==
    /\ pc = "run"
    /\ cur = "Upgrades"
    /\ ranThisTick = <<"Upgrades">>
    /\ last_run = [t \in TaskType |-> 0]
    /\ now = 60

\* C23 (as stated): a TimedTask seeded one interval in the past is due at its
\* first evaluation (due for as long as it has not run); right after it
\* executes it is not due; and once it has executed it is due only when more
\* than the interval has elapsed since the new last_run.
C23_SeededTaskDueThenQuiet ==
    /\ [](\A i \in DOMAIN tasks :
             tasks[i].runs = 0 => TimedTask_should_run(tasks[i]))
    /\ [][\A i \in DOMAIN tasks :
             (i \in DOMAIN tasks' /\ tasks'[i].runs > tasks[i].runs) =>
                 /\ tasks'[i].last_run = now
                 /\ ~(TimedTask_should_run(tasks[i]))']_vars
    /\ [](\A i \in DOMAIN tasks :
             (tasks[i].runs > 0 /\ TimedTask_should_run(tasks[i])) =>
                 (now - tasks[i].last_run) > tasks[i].interval)

\* task t is due, the scheduler is in its loop, and t's sequence is not the
\* one running or just completed (its last_run about to be written)
Due(t) ==
    /\ pc \notin {"new", "error"}
    /\ should_run_task(t)
    /\ ~(pc \in {"run", "update"} /\ cur = t)
Started(t) == pc = "run" /\ cur = t

\* C24: under fair scheduling of the scheduler, with every task's flag left
\* on, whenever a task is due while the master flag is on its sequence is
\* eventually executed unless the master flag is turned off first, whichever
\* other tasks are due with it.
C24_DueTaskEventuallyRuns ==
    \A t \in TaskType :
        (Due(t) /\ active /\ enabled[t]) ~> (Started(t) \/ ~active)

C24_Witness ==
    /\ Started("Prestige")
    /\ ranThisTick = <<"Upgrades", "Souls", "Prestige">>
    /\ active
    /\ enabled["Prestige"]
    /\ clicks = MaxClicks

\* C25: the click counter changes only in two ways: the primary action adds
\* exactly one to it, and the reset of an activating master toggle stores
\* zero in it; no step of a task sequence (its click_at and scroll_at calls,
\* its start, its completion, the last_run write) changes it.
C25_ClicksChangeOnlyTwoWays ==
    [][/\ clicks' # clicks =>
            \/ pc = "mine" /\ pc' # pc /\ clicks' = clicks + 1
            \/ /\ tpc = "reset_clicks" /\ TogglerStep
               /\ titem = "master" /\ ~was_on
               /\ clicks' = 0
       /\ (pc = "mine" /\ pc' # pc) =>
            clicks' = clicks + 1 /\ tickInputs' = tickInputs + 2
       /\ (pc \in {"perform", "run", "update"} /\ pc' # pc) =>
            clicks' = clicks
       /\ (pc = "run" /\ tickInputs' # tickInputs) =>
            clicks' = clicks /\ tickIncr' = tickIncr]_vars

C25_Witness ==
    /\ pc = "update"
    /\ cur = "Souls"
    /\ ranThisTick = <<"Upgrades", "Souls">>
    /\ tickInputs = 2 + TotalInputCalls(perform_upgrades)
                      + TotalInputCalls(perform_souls_upgrade)
    /\ tickIncr = 1
    /\ clicks = 1

\* C26: scroll_at(pos, n) performs one move to pos followed by exactly |n|
\* scroll calls of one unit each, every one with delta -1 when n > 0 and +1
\* when n < 0, and no scroll call when n = 0.
C26_ScrollAtExpands ==
    /\ sc.pc # "idle" =>
          /\ Len(issued) = 1 + sc.i
          /\ issued[1] = [op |-> "move_mouse", pos |-> sc.pos, delta |-> 0]
          /\ \A j \in 2..Len(issued) :
                /\ issued[j].op = "scroll"
                /\ sc.amount > 0 => issued[j].delta = -1
                /\ sc.amount < 0 => issued[j].delta = 1
    /\ sc.pc = "done" =>
          /\ sc.amount >= 0 => Len(issued) = 1 + sc.amount
          /\ sc.amount < 0 => Len(issued) = 1 - sc.amount
          /\ sc.amount = 0 => issued = <<move_mouse(sc.pos)>>

C26_Witness ==
    /\ sc.pc = "done"
    /\ sc.amount = -8
    /\ sc.pos = "SAFE_SCROLL_AREA"
    /\ Len(issued) = 9
    /\ issued[9] = [op |-> "scroll", pos |-> "None", delta |-> 1]

Items == {"master"} \cup TaskType
\* BotState::new: the master flag off, the task flags on
InitialFlag(item) == item # "master"
\* toggle calls on item so far: the completed ones (one log entry each) and
\* the ones past their fetch_xor
Completed(item) ==
    Cardinality({i \in DOMAIN ActivityLog :
                    ActivityLog[i].message[1] = name(item)})
InProgress(item) == Cardinality({c \in Contexts : call[c].item = item})

\* C27: flips are never lost: a flag equals its initial value when the number
\* of toggle calls that have flipped it is even and the opposite value when it
\* is odd, so after n completed calls and none in progress it is decided by
\* the parity of n, in every interleaving of the contexts; and a step that
\* flips one flag changes no other flag.
C27_FlipsNeverLost ==
    /\ [](\A item \in Items :
             Flag(item) =
                 (InitialFlag(item)
                    <=> (Completed(item) + InProgress(item)) % 2 = 0))
    /\ [][Cardinality({item \in Items : Flag(item)' # Flag(item)}) <= 1]_vars

C27_Witness ==
    /\ impl = "main"
    /\ call["poller"].item = "master"
    /\ call["ui"].item = "master"
    /\ Completed("master") = 1
    /\ active

\* the guards context c holds
GuardsOf(c) == {l \in Locks : \E m \in {"r", "w"} : <<c, m>> \in held[l]}
\* the next step of a context that holds a guard
HolderStep(c) ==
    drop(c) \/ Logger_log_push(c) \/ Logger_log_drain(c)
        \/ get_entries_clone(c)

\* C28: no guard of a last_run, of the log or of the session start is alive
\* while its context is in an input call or a sleep: a context at an await
\* holds no guard, and whoever holds a guard can always take its next step
\* and let go, so nobody waits for a lock across a sleep or a task sequence.
C28_NoLockAcrossAwait ==
    /\ [](\A c \in Tasks3 : lpc[c].at = "await" => GuardsOf(c) = {})
    /\ [](\A c \in Tasks3 : GuardsOf(c) # {} => ENABLED HolderStep(c))
    /\ [](\A c \in Tasks3 : Cardinality(GuardsOf(c)) <= 1)
    /\ [](\A l \in Locks :
             \A h \in held[l] : h[2] = "w" => held[l] = {h})

C28_Witness ==
    /\ lpc["scheduler"].at = "await"
    /\ lpc["poller"] = [at |-> "pushed", lock |-> "entries", mode |-> "w"]
    /\ lpc["ui"] = [at |-> "locked", lock |-> "Upgrades", mode |-> "r"]
    /\ held["entries"] = {<<"poller", "w">>}

\* C29: the Vec get_entries returns is a copy, oldest entry first, of the log
\* at one instant between two appends: at most MAX_LOGS entries, consecutive
\* appends in their order, never the pushed-but-not-yet-truncated log; later
\* appends and evictions change the log, not the Vec already returned.
C29_SnapshotIsConsistentCopy ==
    /\ [](snap # <<>> =>
             /\ Len(snap) <= MAX_LOGS
             /\ \A i \in 1..(Len(snap) - 1) :
                    snap[i + 1].message = snap[i].message + 1
             /\ snap[1].message = 1 \/ Len(snap) = MAX_LOGS
             /\ snap[Len(snap)].message <= appended.Logger)
    /\ [][snap' # snap =>
             /\ snap' = entries
             /\ entries' = entries
             /\ \A l \in {"entries"} : \A h \in held[l] : h[2] = "r"]_vars
    /\ [][entries' # entries => snap' = snap]_vars

C29_Witness ==
    /\ Len(snap) = MAX_LOGS
    /\ snap[1].message = 2
    /\ appended.Logger = 52
    /\ lpc["scheduler"].at = "pushed"
    /\ Len(entries) = MAX_LOGS + 1

\* ---- C30 ----
\* flips of the flag of item so far: the toggle calls that completed and the
\* ones past their fetch_xor
Flips(item) == Completed(item) + InProgress(item)

\* C30: in the single-file application one physical press of a control key
\* (F1..F4) causes exactly one flip of the corresponding flag, although the
\* polled key-state listener and the terminal key-event handler both see the
\* press: at no time are there more flips than keys have gone down.
C30_OneFlipPerPress ==
    impl = "main" =>
        Flips("master") + Flips("Upgrades") + Flips("Souls")
            + Flips("Prestige") <= presses

\* ---- C31 ----
\* C31: Scheduler::tick visits the registered tasks in insertion order; the
\* visit of a task invokes its action iff the task is due at that moment, a
\* task that is not due keeps its run count and its last_run, a task that ran
\* has last_run set to the clock after its action, and no other task is
\* touched by the visit.
C31_TickVisitsInOrderRunsIffDue ==
    [][/\ (ti = 0 /\ ti' # 0) => (ti' = 1 /\ tasks' = tasks)
       /\ (ti > 0 /\ ti' # ti) =>
              /\ ti' = (IF ti < Len(tasks) THEN ti + 1 ELSE 0)
              /\ Len(tasks') = Len(tasks)
              /\ \A j \in DOMAIN tasks : j # ti => tasks'[j] = tasks[j]
              /\ (now - tasks[ti].last_run >= tasks[ti].interval)
                     => /\ tasks'[ti].runs = tasks[ti].runs + 1
                        /\ tasks'[ti].last_run = now
                        /\ tasks'[ti].interval = tasks[ti].interval
              /\ (now - tasks[ti].last_run < tasks[ti].interval)
                     => tasks'[ti] = tasks[ti]]_vars

\* a tick that ran the first task a second time and passed over the second
C31_Witness ==
    /\ ti = 0
    /\ Len(tasks) = 2
    /\ tasks[1].runs = 2
    /\ tasks[1].last_run = now
    /\ tasks[2].runs = 1
    /\ tasks[2].last_run < now
    /\ seval.task = 2
    /\ ~seval.due

\* ---- C32 ----
\* a sequence has just run from its first call to its last
SequenceDone == cur = None /\ seqs > 0

IsRunning(e) == e.message[2] = "Running"
IsComplete(e) == e.message[2] = "complete"
IsToggleEntry(e) ==
    e.message[2] \in {"ACTIVATED", "PAUSED", "ENABLED", "DISABLED"}

\* entries i+1 .. j-1 of the log are toggle entries
OnlyToggles(i, j) == \A k \in (i + 1)..(j - 1) : IsToggleEntry(entries[k])

\* the "Running" entry at i is answered: the next entry of a sequence after
\* it, if there is one, is the "complete" entry of the same task
Answered(i) ==
    \A j \in (i + 1)..Len(entries) :
        (~IsToggleEntry(entries[j]) /\ OnlyToggles(i, j))
            => /\ IsComplete(entries[j])
               /\ entries[j].message[1] = entries[i].message[1]

\* the "complete" entry at j has its "Running" entry before it
Announced(j) ==
    \E i \in 1..(j - 1) :
        /\ IsRunning(entries[i])
        /\ entries[i].message[1] = entries[j].message[1]
        /\ OnlyToggles(i, j)

\* C33 (as stated): in the activity log every "Running <task>" entry is
\* followed by the same task's "complete" entry before any other "Running"
\* entry, only toggle entries stand between the two, and no "complete" entry
\* stands in the log without its "Running" entry before it.
C33_RunningThenComplete ==
    \A i \in DOMAIN entries :
        /\ IsRunning(entries[i]) => Answered(i)
        /\ IsComplete(entries[i]) => Announced(i)

\* C33 (amended): the same, except that the oldest sequence entry of a full
\* log may be a "complete" entry whose "Running" entry the log has dropped.
C33_RunningThenCompleteInWindow ==
    \A i \in DOMAIN entries :
        /\ IsRunning(entries[i]) => Answered(i)
        /\ IsComplete(entries[i]) =>
               \/ Announced(i)
               \/ Len(entries) = MAX_LOGS /\ OnlyToggles(0, i)

\* a full log that starts with the "complete" entry of a dropped "Running"
\* and ends with a souls run, a toggle between its two entries
C33_Witness ==
    /\ Len(entries) = MAX_LOGS
    /\ IsComplete(entries[1])
    /\ IsRunning(entries[MAX_LOGS - 2])
    /\ entries[MAX_LOGS - 2].message[1] = "Souls"
    /\ IsToggleEntry(entries[MAX_LOGS - 1])
    /\ IsComplete(entries[MAX_LOGS])
    /\ entries[MAX_LOGS].message[1] = "Souls"

\* ---- C34 ----
\* the positions of the master-toggle entries in the activity log
MasterEntries ==
    {i \in DOMAIN ActivityLog :
        ActivityLog[i].message \in {message("master", FALSE),
                                    message("master", TRUE)}}

\* the latest of them
LastMasterEntry ==
    ActivityLog[CHOOSE i \in MasterEntries : \A j \in MasterEntries : j <= i]

\* C34: whenever no toggle call is in progress, the most recent master-toggle
\* entry of the activity log agrees with the master flag ("Bot ACTIVATED" iff
\* the flag is on), also when the toggles come from more than one context.
C34_LastMasterEntryAgrees ==
    ((\A c \in Contexts : call[c].item = None) /\ MasterEntries # {})
        => (LastMasterEntry.message[2] = "ACTIVATED" <=> active)

\* ---- C35 ----
\* the contexts whose guards keep c from being granted lock l in mode m
Blockers(c, l, m) ==
    {h[1] : h \in {g \in held[l] : g[1] # c /\ (m = "w" \/ g[2] = "w")}}

\* C35: the three contexts never deadlock: no context holds more than one
\* lock at a time, so a context that asks for a lock is granted it or waits
\* for contexts that hold nothing else and can release at once, and every
\* operation that took a lock completes: the guard is eventually dropped.
C35_NoDeadlock ==
    /\ [](\A c \in Tasks3 : Cardinality(GuardsOf(c)) <= 1)
    /\ [](\A c \in Tasks3 : \A l \in ReadsOf(c) :
             \A b \in Blockers(c, l, "r") :
                 GuardsOf(b) = {l} /\ ENABLED guard_step(b))
    /\ [](\A c \in Tasks3 : \A l \in WritesOf(c) :
             \A b \in Blockers(c, l, "w") :
                 GuardsOf(b) = {l} /\ ENABLED guard_step(b))
    /\ \A c \in Tasks3 : (GuardsOf(c) # {}) ~> (GuardsOf(c) = {})

\* the scheduler wants to log while the redraw loop reads the log and the
\* poller, in a toggle, holds the session start
C35_Witness ==
    /\ lpc["scheduler"].at = "out"
    /\ Blockers("scheduler", "entries", "w") = {"ui"}
    /\ held["session_start"] = {<<"poller", "w">>}
    /\ appended.Logger > 0

\* ---- C36 ----
\* the scheduler evaluates task t in the first active tick after an
\* activation, the primary action of that tick done
FirstTickEvaluation(t) ==
    /\ firstTick = "done"
    /\ pc = "check"
    /\ cur = t
    /\ pc' # pc \/ cur' # cur

\* C36: task timers keep running while the bot is paused: no step of a
\* toggle touches last_run, and a task that is enabled and due when the first
\* active tick after an activation evaluates it starts its sequence in that
\* tick, after the tick's primary action.
C36_TimersRunWhilePaused ==
    /\ [][TogglerStep => last_run' = last_run]_vars
    /\ [][\A t \in TaskType :
             (FirstTickEvaluation(t) /\ enabled[t] /\ should_run_task(t))
                 => (pc' = "perform" /\ cur' = t)]_vars
    /\ [][(firstTick = "done" /\ pc = "perform" /\ pc' = "run")
             => (tickIncr = 1 /\ cur \notin Range(ranThisTick))]_vars

\* switched on 630 s after the start, never on before: the souls sequence,
\* due since its timer was set at the start, has run in the first tick
C36_Witness ==
    /\ firstTick = "done"
    /\ pc = "update"
    /\ cur = "Souls"
    /\ ranThisTick = <<"Upgrades", "Souls">>
    /\ last_run["Souls"] = 0
    /\ now = SOULS_INTERVAL + UPGRADE_INTERVAL
    /\ active

====
